---- MODULE Spec2Model ----
(***************************************************************************)
(* Bridge network lifecycle engine of lxd (the "bridge" network driver,    *)
(* package network): Create, Start/setup, Stop, Update and Delete of one   *)
(* managed bridge, the kernel objects, helper processes, firewall state    *)
(* and persisted record they act on.                                       *)
(*                                                                         *)
(* Every handler is a sequence of steps in the order of the source; each   *)
(* step is one action, guarded by the worker's program counter.  A call    *)
(* whose error the source checks may fail: the step then takes the         *)
(* source's error path.  The kernel tables are multisets so that a route   *)
(* added twice is visible as a duplicate.                                  *)
(***************************************************************************)
EXTENDS Integers, Sequences, FiniteSets, TLC

\* Bounds of the model.
MaxProcs == 2
MaxDup == 2
\* Requests served in one run.
MaxOps == 3
\* Requests of one run in which steps may fail.
MaxFaulty == 1
\* Requests served in one run of the two-worker specification.
MaxConcOps == 2

\* The bridge under management: its name is the kernel interface name.
Bridge == "br0"
MtuDev == "br0-mtu"
FanDev == "br0-fan"
TunDev == "br0-t1"
ExtDev == "eth1"
Workers == {"w1", "w2"}

\* A route of each family, as ipv4.routes / ipv6.routes name them.
Route4 == "192.0.2.0/24"
Route6 == "2001:db8::/64"
Addr4 == "10.0.0.1/24"
Addr6 == "fd42::1/64"
AddrFan == "240.1.0.1/8"
\* Routes of protocol boot, which other mechanisms add to the bridge.
Boot4 == "198.51.100.0/24 proto boot"
Boot6 == "2001:db8:1::/64 proto boot"
BootRoutes(fam) == IF fam = 4 THEN {Boot4} ELSE {Boot6}
AllRoutes == {Route4, Route6, Boot4, Boot6}

Keys ==
  {"bridge.driver", "bridge.mode", "bridge.mtu", "bridge.external_interfaces",
   "fan.type", "ipv4.address", "ipv4.firewall", "ipv4.nat", "ipv4.routes",
   "ipv6.address", "ipv6.firewall", "ipv6.nat", "ipv6.routes",
   "tunnel.t1.protocol", "tunnel.t1.local", "tunnel.t1.remote"}

EmptyConfig == [k \in Keys |-> ""]
\* A nil map (setup(nil)): every lookup yields "".
NoConfig == [k \in Keys |-> "<nil>"]

CfgV4 ==
  ("ipv4.address" :> Addr4 @@ "ipv4.nat" :> "true" @@ "ipv4.routes" :> Route4
   @@ "ipv6.address" :> "none" @@ "ipv6.firewall" :> "false") @@ EmptyConfig
CfgDual ==
  ("ipv4.address" :> Addr4 @@ "ipv4.nat" :> "true" @@ "ipv4.routes" :> Route4
   @@ "ipv6.address" :> Addr6 @@ "ipv6.nat" :> "true" @@ "ipv6.routes" :> Route6
   @@ "bridge.mtu" :> "9000") @@ EmptyConfig
CfgExt ==
  ("ipv4.address" :> "none" @@ "ipv6.address" :> "none"
   @@ "ipv4.firewall" :> "false" @@ "ipv6.firewall" :> "false"
   @@ "bridge.external_interfaces" :> ExtDev) @@ EmptyConfig
CfgFan ==
  ("bridge.mode" :> "fan" @@ "fan.type" :> "vxlan" @@ "ipv4.nat" :> "true"
   @@ "ipv6.firewall" :> "false") @@ EmptyConfig
CfgOVS ==
  ("bridge.driver" :> "openvswitch" @@ "ipv4.address" :> Addr4
   @@ "ipv6.address" :> "none") @@ EmptyConfig
CfgTun ==
  ("ipv4.address" :> Addr4 @@ "ipv6.address" :> "none"
   @@ "tunnel.t1.protocol" :> "gre" @@ "tunnel.t1.local" :> "198.51.100.1"
   @@ "tunnel.t1.remote" :> "198.51.100.2") @@ EmptyConfig
Configs == {CfgV4, CfgDual, CfgExt, CfgFan, CfgOVS, CfgTun}

Get(c, k) == IF c = NoConfig THEN "" ELSE c[k]
IsTrue(v) == v \in {"true", "1", "yes", "on"}
IPv4Enabled(c) == Get(c, "ipv4.address") \notin {"", "none"}
IPv6Enabled(c) == Get(c, "ipv6.address") \notin {"", "none"}
IsFan(c) == Get(c, "bridge.mode") = "fan"
IsOVS(c) == Get(c, "bridge.driver") = "openvswitch"

usesIPv4Firewall(c) ==
  /\ c # NoConfig
  /\ \/ c["ipv4.firewall"] = ""
     \/ IsTrue(c["ipv4.firewall"])
     \/ IsTrue(c["ipv4.nat"])
usesIPv6Firewall(c) ==
  /\ c # NoConfig
  /\ \/ c["ipv6.firewall"] = ""
     \/ IsTrue(c["ipv6.firewall"])
     \/ IsTrue(c["ipv6.nat"])
hasIPv4Firewall(c) ==
  /\ IsFan(c) \/ IPv4Enabled(c)
  /\ c["ipv4.firewall"] = "" \/ IsTrue(c["ipv4.firewall"])
hasIPv6Firewall(c) ==
  /\ IPv6Enabled(c)
  /\ c["ipv6.firewall"] = "" \/ IsTrue(c["ipv6.firewall"])
UsesDNSMasq(c) == IsFan(c) \/ IPv4Enabled(c) \/ IPv6Enabled(c)
getTunnels(c) == IF c["tunnel.t1.protocol"] # "" \/ c["tunnel.t1.local"] # ""
                    \/ c["tunnel.t1.remote"] # "" THEN {"t1"} ELSE {}

\* Variant: only the config in force decides which families are cleared.
fwClearCurrentOnly(c, old) ==
  (IF usesIPv4Firewall(c) THEN {4} ELSE {})
  \cup (IF usesIPv6Firewall(c) THEN {6} ELSE {})

\* The families NetworkClear is asked to clear, in setup and in Stop.
fwClearIPVersions(c, old) ==
  (IF usesIPv4Firewall(c) \/ usesIPv4Firewall(old) THEN {4} ELSE {})
  \cup (IF usesIPv6Firewall(c) \/ usesIPv6Firewall(old) THEN {6} ELSE {})
\* The families the option set built by setup gives rules to.
fwOptsFamilies(c) ==
  (IF hasIPv4Firewall(c) \/ ((IPv4Enabled(c) \/ IsFan(c)) /\ IsTrue(c["ipv4.nat"]))
     THEN {4} ELSE {})
  \cup (IF hasIPv6Firewall(c) \/ (IPv6Enabled(c) /\ IsTrue(c["ipv6.nat"]))
     THEN {6} ELSE {})
\* The effective MTU before the fan step, "" when none is forced.
forcedMTU(c) ==
  IF c["bridge.mtu"] # "" THEN c["bridge.mtu"]
  ELSE IF getTunnels(c) # {} THEN "1400"
  ELSE IF IsFan(c) THEN (IF c["fan.type"] = "ipip" THEN "1480" ELSE "1450")
  ELSE ""

VARIABLES
  ifaces,       \* kernel interfaces whose name is the bridge's or starts with "br0-"
  bridgeKind,   \* the backend that created the bridge: "none", "native", "openvswitch"
  ports,        \* interfaces attached to the bridge
  addrs,        \* global-scope addresses on the bridge, <<family, address>>
  routes,       \* static-proto routes on the bridge: route -> multiplicity
  fwRules,      \* IP families the bridge has firewall rules for
  apparmor,     \* the AppArmor profiles of the bridge are loaded
  dnsmasq,      \* the DHCP/DNS helper: processes running, PID file, PID file names a live one
  forkdns,      \* the DNS forwarder helper, likewise
  net,          \* n.config and n.description of the network object
  db,           \* the persisted record
  status,       \* "pending" or "created"
  th,           \* per worker: program counter, locals, revert stack
  snap,         \* observable state when the last Start returned success
  prevSnap,     \* the one before it, when two Starts ran in succession
  env,          \* the run's environment: faults injected, workers, clustered
  dns,          \* the zone-transfer server: the request in hand and what was written
  fdns,         \* the forkdns servers file, its lock and the heartbeats in progress
  fwd,          \* the network forwards in the database and the requests on them
  nic,          \* the host devices of the routed NICs and the Starts in progress
  calc,         \* the function under evaluation, its input and its result
  devs          \* the devices of instances: host interfaces, virtual functions, Starts in progress

kernel == <<ifaces, bridgeKind, ports, addrs, routes>>
helpers == <<dnsmasq, forkdns>>
sys == <<fwRules, apparmor>>
store == <<net, db, status>>
hist == <<snap, prevSnap>>
bridgeVars == <<ifaces, bridgeKind, ports, addrs, routes, fwRules, apparmor,
               dnsmasq, forkdns, net, db, status, th, snap, prevSnap, env>>
nonBridge == <<dns, fdns, fwd, nic, calc, devs>>
notDNS == <<bridgeVars, fdns, fwd, nic, calc, devs>>
notFdns == <<bridgeVars, dns, fwd, nic, calc, devs>>
notFwd == <<bridgeVars, dns, fdns, nic, calc, devs>>
notNic == <<bridgeVars, dns, fdns, fwd, calc, devs>>
notCalc == <<bridgeVars, dns, fdns, fwd, nic, devs>>
notDev == <<bridgeVars, dns, fdns, fwd, nic, calc>>
vars == <<ifaces, bridgeKind, ports, addrs, routes, fwRules, apparmor, dnsmasq,
          forkdns, net, db, status, th, snap, prevSnap, env, dns, fdns, fwd,
          nic, calc, devs>>

NoNet == [config |-> NoConfig, description |-> ""]
NoSnap == [none |-> TRUE]
NoHelper == [running |-> 0, pidfile |-> FALSE, tracked |-> FALSE]
NoRoutes == [r \in AllRoutes |-> 0]

IdleThread ==
  [pc |-> "idle", op |-> "none", err |-> FALSE, stack |-> <<>>, revert |-> <<>>,
   oldConfig |-> NoConfig, newNet |-> NoNet, oldNet |-> NoNet, armed |-> FALSE,
   changed |-> {}, flushed |-> {}, made |-> <<>>, undone |-> <<>>, failedAt |-> "",
   wasRunning |-> FALSE, early |-> FALSE, quiet |-> FALSE, dnsClustered |-> FALSE, calls |-> <<>>,
   ctRoutes |-> {}, bootSeen |-> {},
   ufail |-> "", rbPersist |-> "", rbSetupErr |-> FALSE, before |-> NoSnap,
   torn |-> FALSE, retry |-> FALSE, hadBridge |-> FALSE]

cfg == net.config
isRunning == Bridge \in ifaces
HasBridgePrefix(name) == name \in {MtuDev, FanDev, TunDev}
InterfaceExists(name) == name \in ifaces \/ name = ExtDev

Upd(t, r) == [th EXCEPT ![t] = r @@ @]

\* The outcomes a step may take: "ok", or one of its failure points.  A step
\* that works on the bridge link fails when the link is gone.
Outcomes(S) == IF env.faults THEN S ELSE {"ok"}
\* A request is admitted; f says whether steps of it may fail.
Admit(f) ==
  /\ f => env.faulty < MaxFaulty
  /\ env' = [env EXCEPT !.ops = @ + 1, !.faults = f,
                        !.faulty = IF f THEN @ + 1 ELSE @]
LinkOutcomes(S) == IF ~isRunning THEN S \ {"ok"} ELSE Outcomes(S)

\* Everything outside the database that belongs to the bridge.
SysState == <<ifaces, bridgeKind, ports, addrs, routes, fwRules, apparmor, dnsmasq, forkdns>>
Before == [sys |-> SysState, db |-> db]

Observable ==
  [ifaces |-> ifaces, ports |-> ports, addrs |-> addrs, routes |-> routes,
   fwRules |-> fwRules, apparmor |-> apparmor, dnsmasq |-> dnsmasq.running,
   forkdns |-> forkdns.running]

-----------------------------------------------------------------------------
\* Kernel and helper primitives.

DeleteBridgeLink ==
  /\ ifaces' = ifaces \ {Bridge}
  /\ bridgeKind' = "none"
  /\ ports' = {}
  /\ addrs' = {}
  /\ routes' = NoRoutes

DeleteDevices(D) ==
  /\ ifaces' = ifaces \ D
  /\ ports' = ports \ D
  /\ UNCHANGED <<bridgeKind, addrs, routes>>

RouteAdd(rt, r) == [rt EXCEPT ![r] = IF @ < MaxDup THEN @ + 1 ELSE @]
RouteFlush(rt, R) == [r \in AllRoutes |-> IF r \in R THEN 0 ELSE rt[r]]

\* dnsmasq.Kill(name, false): stop the process the PID file names, remove the file.
KillTracked(h, removeFile) ==
  IF ~h.pidfile THEN h
  ELSE [running |-> IF h.tracked THEN h.running - 1 ELSE h.running,
        pidfile |-> ~removeFile, tracked |-> FALSE]
\* p.Start then p.Save: one more process, named by the PID file.
Spawned(h, alive) ==
  [running |-> IF alive /\ h.running < MaxProcs THEN h.running + 1 ELSE h.running,
   pidfile |-> TRUE, tracked |-> alive]

-----------------------------------------------------------------------------
\* Calls and returns.

CallSetup(t, old, cont) ==
  [pc |-> "s_dir", oldConfig |-> old, revert |-> <<>>, made |-> <<>>,
   undone |-> <<>>, flushed |-> {}, failedAt |-> "", early |-> FALSE, quiet |-> FALSE,
   dnsClustered |-> FALSE, ctRoutes |-> {}, bootSeen |-> {},
   stack |-> <<cont>> \o th[t].stack, hadBridge |-> isRunning,
   calls |-> Append(th[t].calls, "setup")]
CallStop(t, cont) ==
  [pc |-> "p_check", stack |-> <<cont>> \o th[t].stack, failedAt |-> "",
   calls |-> Append(th[t].calls, "Stop")]
Return(t, e) ==
  [pc |-> Head(th[t].stack), stack |-> Tail(th[t].stack), err |-> e]
\* The request is answered: the locals are gone, the result is what remains.
Returned(t) == [op |-> th[t].op, err |-> th[t].err] @@ IdleThread
\* setup's error path: run the revert stack, then return the error.
SetupFail(t, at) == [pc |-> "s_revert", failedAt |-> at]
StopFail(t, at) == [failedAt |-> at] @@ Return(t, TRUE)

-----------------------------------------------------------------------------
\* Start (and the setup routine).

StartBegin(t) ==
  /\ UNCHANGED nonBridge
  /\ th[t].pc = "idle"
  /\ t \in env.workers /\ env.ops < env.limit
  /\ db # NoNet
  /\ th' = [th EXCEPT ![t] = ([op |-> "Start", stack |-> <<"start_ret">>,
                              calls |-> <<"setup">>] @@ CallSetup(t, NoConfig, "start_ret"))
                             @@ IdleThread]
  /\ prevSnap' = NoSnap
  /\ \E f \in BOOLEAN : Admit(f)
  /\ UNCHANGED <<kernel, helpers, sys, store, snap>>

\* Variant: each family is configured before it is flushed.
SetupNextAddFirst(pc) ==
  CASE pc = "s_dir" -> "s_bridge"
    [] pc = "s_bridge" -> "s_clean"
    [] pc = "s_clean" -> "s_mtu"
    [] pc = "s_mtu" -> "s_link"
    [] pc = "s_link" -> "s_ext"
    [] pc = "s_ext" -> "s_fwclear"
    [] pc = "s_fwclear" -> "s_ipv4"
    [] pc = "s_ipv4" -> "s_flush4"
    [] pc = "s_flush4" -> "s_ipv6"
    [] pc = "s_ipv6" -> "s_flush6"
    [] pc = "s_flush6" -> "s_fan"
    [] pc = "s_fan" -> "s_tunnels"
    [] pc = "s_tunnels" -> "s_apparmor"
    [] pc = "s_apparmor" -> "s_kill"
    [] pc = "s_kill" -> "s_dnsmasq"
    [] pc = "s_dnsmasq" -> "s_forkdns"
    [] pc = "s_forkdns" -> "s_firewall"
    [] pc = "s_firewall" -> "s_finish"

\* Variant: both families are flushed before either is configured.
SetupNextFlushBoth(pc) ==
  CASE pc = "s_dir" -> "s_bridge"
    [] pc = "s_bridge" -> "s_clean"
    [] pc = "s_clean" -> "s_mtu"
    [] pc = "s_mtu" -> "s_link"
    [] pc = "s_link" -> "s_ext"
    [] pc = "s_ext" -> "s_fwclear"
    [] pc = "s_fwclear" -> "s_flush4"
    [] pc = "s_flush4" -> "s_flush6"
    [] pc = "s_flush6" -> "s_ipv4"
    [] pc = "s_ipv4" -> "s_ipv6"
    [] pc = "s_ipv6" -> "s_fan"
    [] pc = "s_fan" -> "s_tunnels"
    [] pc = "s_tunnels" -> "s_apparmor"
    [] pc = "s_apparmor" -> "s_kill"
    [] pc = "s_kill" -> "s_dnsmasq"
    [] pc = "s_dnsmasq" -> "s_forkdns"
    [] pc = "s_forkdns" -> "s_firewall"
    [] pc = "s_firewall" -> "s_finish"

SetupNext(pc) ==
  CASE pc = "s_dir" -> "s_bridge"
    [] pc = "s_bridge" -> "s_clean"
    [] pc = "s_clean" -> "s_mtu"
    [] pc = "s_mtu" -> "s_link"
    [] pc = "s_link" -> "s_ext"
    [] pc = "s_ext" -> "s_fwclear"
    [] pc = "s_fwclear" -> "s_flush4"
    [] pc = "s_flush4" -> "s_ipv4"
    [] pc = "s_ipv4" -> "s_flush6"
    [] pc = "s_flush6" -> "s_ipv6"
    [] pc = "s_ipv6" -> "s_fan"
    [] pc = "s_fan" -> "s_tunnels"
    [] pc = "s_tunnels" -> "s_apparmor"
    [] pc = "s_apparmor" -> "s_kill"
    [] pc = "s_kill" -> "s_dnsmasq"
    [] pc = "s_dnsmasq" -> "s_forkdns"
    [] pc = "s_forkdns" -> "s_firewall"
    [] pc = "s_firewall" -> "s_finish"

Go(t) == [pc |-> SetupNext(th[t].pc)]

\* Variant: the hook that deletes the bridge is registered also when the
\* bridge was there already.
SetupBridgeAlwaysReverts(t) ==
  /\ UNCHANGED nonBridge
  /\ th[t].pc = "s_bridge"
  /\ \E o \in Outcomes({"ok", "fail", "noOVS", "noIPv6"}) :
       /\ o = "fail" => ~isRunning
       /\ o = "noOVS" => ~isRunning /\ IsOVS(cfg)
       /\ o = "noIPv6" => IPv6Enabled(cfg)
       /\ IF o \in {"ok", "noIPv6"} /\ ~isRunning
            THEN /\ ifaces' = ifaces \cup {Bridge}
                 /\ bridgeKind' = IF IsOVS(cfg) THEN "openvswitch" ELSE "native"
                 /\ th' = Upd(t, [revert |-> Append(th[t].revert, Bridge),
                                  made |-> Append(th[t].made, Bridge)]
                                   @@ (IF o = "ok" THEN Go(t) ELSE SetupFail(t, "noIPv6")))
                 /\ UNCHANGED <<ports, addrs, routes>>
            ELSE /\ th' = Upd(t, CASE o = "ok" ->
                                     [revert |-> Append(th[t].revert, Bridge)] @@ Go(t)
                                   [] o = "fail" -> SetupFail(t, "s_bridge")
                                   [] OTHER -> SetupFail(t, o))
                 /\ UNCHANGED kernel
  /\ UNCHANGED <<helpers, sys, store, hist, env>>

SetupDir(t) ==
  /\ UNCHANGED nonBridge
  /\ th[t].pc = "s_dir"
  /\ \E o \in Outcomes({"ok", "fail"}) :
       th' = Upd(t, IF o = "ok" THEN Go(t) ELSE SetupFail(t, "s_dir"))
  /\ UNCHANGED <<kernel, helpers, sys, store, hist, env>>

SetupBridge(t) ==
  /\ UNCHANGED nonBridge
  /\ th[t].pc = "s_bridge"
  /\ \E o \in Outcomes({"ok", "fail", "noOVS", "noIPv6"}) :
       /\ o = "fail" => ~isRunning
       /\ o = "noOVS" => ~isRunning /\ IsOVS(cfg)
       /\ o = "noIPv6" => IPv6Enabled(cfg)
       /\ IF o \in {"ok", "noIPv6"} /\ ~isRunning
            THEN /\ ifaces' = ifaces \cup {Bridge}
                 /\ bridgeKind' = IF IsOVS(cfg) THEN "openvswitch" ELSE "native"
                 /\ th' = Upd(t, [revert |-> Append(th[t].revert, Bridge),
                                  made |-> Append(th[t].made, Bridge)]
                                   @@ (IF o = "ok" THEN Go(t) ELSE SetupFail(t, "noIPv6")))
                 /\ UNCHANGED <<ports, addrs, routes>>
            ELSE /\ th' = Upd(t, CASE o = "ok" -> Go(t)
                                   [] o = "fail" -> SetupFail(t, "s_bridge")
                                   [] OTHER -> SetupFail(t, o))
                 /\ UNCHANGED kernel
  /\ UNCHANGED <<helpers, sys, store, hist, env>>

\* Cleanup of every existing device named "<bridge>-...": an error part-way
\* leaves a strict subset deleted.
SetupCleanTunnels(t) ==
  /\ UNCHANGED nonBridge
  /\ th[t].pc = "s_clean"
  /\ LET old == {d \in ifaces : HasBridgePrefix(d)} IN
     \E o \in Outcomes({"ok", "fail"}) :
       IF o = "ok"
         THEN /\ DeleteDevices(old)
              /\ th' = Upd(t, Go(t))
         ELSE /\ \E D \in SUBSET old : (D # old \/ old = {}) /\ DeleteDevices(D)
              /\ th' = Upd(t, SetupFail(t, "s_clean"))
  /\ UNCHANGED <<helpers, sys, store, hist, env>>

SetupMTU(t) ==
  /\ UNCHANGED nonBridge
  /\ th[t].pc = "s_mtu"
  /\ LET wantDummy == forcedMTU(cfg) # "" /\ ~IsOVS(cfg) /\ MtuDev \notin ifaces IN
     \E dummyOk \in {wantDummy, wantDummy /\ ~env.faults},
        o \in LinkOutcomes({"ok", "fail"}) :
       /\ IF dummyOk
            THEN /\ ifaces' = ifaces \cup {MtuDev}
                 /\ ports' = IF isRunning THEN ports \cup {MtuDev} ELSE ports
            ELSE UNCHANGED <<ifaces, ports>>
       /\ th' = Upd(t, (IF dummyOk
                          THEN [revert |-> Append(th[t].revert, MtuDev),
                                made |-> Append(th[t].made, MtuDev)]
                          ELSE [quiet |-> th[t].quiet \/ wantDummy])
                       @@ (IF o = "ok" THEN Go(t) ELSE SetupFail(t, "s_mtu")))
  /\ UNCHANGED <<bridgeKind, addrs, routes, helpers, sys, store, hist, env>>

SetupLink(t) ==
  /\ UNCHANGED nonBridge
  /\ th[t].pc = "s_link"
  /\ \E o \in LinkOutcomes({"ok", "fail"}) :
       th' = Upd(t, IF o = "ok" THEN Go(t) ELSE SetupFail(t, "s_link"))
  /\ UNCHANGED <<kernel, helpers, sys, store, hist, env>>

SetupExternal(t) ==
  /\ UNCHANGED nonBridge
  /\ th[t].pc = "s_ext"
  /\ IF cfg["bridge.external_interfaces"] = ""
       THEN /\ th' = Upd(t, Go(t))
            /\ UNCHANGED ports
       ELSE \E o \in LinkOutcomes({"ok", "fail"}) :
              IF o = "ok"
                THEN /\ ports' = ports \cup {cfg["bridge.external_interfaces"]}
                     /\ th' = Upd(t, Go(t))
                ELSE /\ th' = Upd(t, SetupFail(t, "s_ext"))
                     /\ UNCHANGED ports
  /\ UNCHANGED <<ifaces, bridgeKind, addrs, routes, helpers, sys, store, hist, env>>

SetupFwClear(t) ==
  /\ UNCHANGED nonBridge
  /\ th[t].pc = "s_fwclear"
  /\ LET vs == fwClearIPVersions(cfg, th[t].oldConfig) IN
     IF vs = {}
       THEN /\ th' = Upd(t, Go(t))
            /\ UNCHANGED fwRules
       ELSE \E o \in Outcomes({"ok", "fail"}) :
              IF o = "ok"
                THEN /\ fwRules' = fwRules \ vs
                     /\ th' = Upd(t, Go(t))
                ELSE /\ th' = Upd(t, SetupFail(t, "s_fwclear"))
                     /\ UNCHANGED fwRules
  /\ UNCHANGED <<kernel, apparmor, helpers, store, hist, env>>

\* Variant: the flush leaves the static routes in place.
FlushKeepRoutes(t, fam, rts, at) ==
  \E o \in LinkOutcomes({"ok", "failAddr", "failRoute"}) :
    /\ addrs' = IF o = "failAddr" THEN addrs ELSE {a \in addrs : a[1] # fam}
    /\ routes' = routes
    /\ th' = Upd(t, IF o = "ok"
                      THEN [flushed |-> th[t].flushed \cup {fam}] @@ Go(t)
                      ELSE SetupFail(t, at))

\* n.bootRoutesV4(), n.bootRoutesV6(): the boot routes on the bridge.
bootRoutes(fam) == {b \in BootRoutes(fam) : routes[b] > 0}

\* What the kernel may drop with the addresses of a family: nothing when
\* the bridge had none, else nothing or every route of the family.
Dropped(fam) ==
  IF \E a \in addrs : a[1] = fam THEN {{}, bootRoutes(fam)} ELSE {{}}

\* Snapshot of the boot routes, then the flush of one family: the global
\* addresses, then the static routes.
Flush(t, fam, rts, at) ==
  \E o \in LinkOutcomes({"ok", "failAddr", "failRoute"}) :
    /\ addrs' = IF o = "failAddr" THEN addrs ELSE {a \in addrs : a[1] # fam}
    /\ \E gone \in IF o = "failAddr" THEN {{}} ELSE Dropped(fam) :
         routes' = RouteFlush(routes, gone \cup IF o = "ok" THEN rts ELSE {})
    /\ th' = Upd(t, IF o = "ok"
                      THEN [flushed |-> th[t].flushed \cup {fam},
                            ctRoutes |-> bootRoutes(fam),
                            bootSeen |-> th[t].bootSeen \cup bootRoutes(fam)] @@ Go(t)
                      ELSE SetupFail(t, at))

SetupFlush4(t) ==
  /\ UNCHANGED nonBridge
  /\ th[t].pc = "s_flush4"
  /\ Flush(t, 4, {Route4}, "s_flush4")
  /\ UNCHANGED <<ifaces, bridgeKind, ports, helpers, sys, store, hist, env>>

SetupFlush6(t) ==
  /\ UNCHANGED nonBridge
  /\ th[t].pc = "s_flush6"
  /\ Flush(t, 6, {Route6}, "s_flush6")
  /\ UNCHANGED <<ifaces, bridgeKind, ports, helpers, sys, store, hist, env>>

\* n.applyBootRoutesV4(ctRoutes), n.applyBootRoutesV6(ctRoutes): Replace of
\* each route of the snapshot; a failure is logged only.
applyBootRoutes(rt, ctRoutes, restored) ==
  [r \in AllRoutes |-> IF r \in ctRoutes \cap restored THEN 1 ELSE rt[r]]

\* Configuration of one family: the address, then the routes of the config,
\* then the boot routes of the snapshot.
Configure(t, enabled, fam, addr, route, at) ==
  IF ~enabled
    THEN /\ th' = Upd(t, Go(t))
         /\ UNCHANGED <<addrs, routes>>
    ELSE \E o \in LinkOutcomes({"ok", "failAddr", "failRoute"}) :
         \E restored \in IF env.faults THEN SUBSET th[t].ctRoutes ELSE {th[t].ctRoutes} :
           /\ addrs' = IF o = "failAddr" THEN addrs ELSE addrs \cup {<<fam, addr>>}
           /\ routes' = IF o = "ok"
                          THEN applyBootRoutes(IF route # "" THEN RouteAdd(routes, route)
                                               ELSE routes, th[t].ctRoutes, restored)
                          ELSE routes
           /\ o = "failRoute" => route # ""
           /\ th' = Upd(t, IF o = "ok" THEN Go(t) ELSE SetupFail(t, at))

SetupIPv4(t) ==
  /\ UNCHANGED nonBridge
  /\ th[t].pc = "s_ipv4"
  /\ Configure(t, IPv4Enabled(cfg), 4, cfg["ipv4.address"], cfg["ipv4.routes"], "s_ipv4")
  /\ UNCHANGED <<ifaces, bridgeKind, ports, helpers, sys, store, hist, env>>

SetupIPv6(t) ==
  /\ UNCHANGED nonBridge
  /\ th[t].pc = "s_ipv6"
  /\ Configure(t, IPv6Enabled(cfg), 6, cfg["ipv6.address"], cfg["ipv6.routes"], "s_ipv6")
  /\ UNCHANGED <<ifaces, bridgeKind, ports, helpers, sys, store, hist, env>>
\* Variant: the cluster address is looked up in every bridge mode.
SetupFanClusteredAnyMode(t) ==
  /\ UNCHANGED nonBridge
  /\ th[t].pc = "s_fan"
  /\ IF ~IsFan(cfg)
       THEN /\ th' = Upd(t, [dnsClustered |-> env.clustered] @@ Go(t))
            /\ UNCHANGED <<ifaces, ports, addrs>>
       ELSE LET vxlan == cfg["fan.type"] # "ipip" IN
            \E o \in LinkOutcomes({"ok", "failPre", "failTun", "failAttach", "failCluster"}) :
              /\ o = "failAttach" => vxlan
              /\ o \in {"ok", "failAttach", "failCluster"} /\ vxlan => FanDev \notin ifaces
              /\ addrs' = IF o = "failPre" THEN addrs ELSE addrs \cup {<<4, AddrFan>>}
              /\ ifaces' = IF vxlan /\ o \in {"ok", "failAttach", "failCluster"}
                             THEN ifaces \cup {FanDev} ELSE ifaces
              /\ ports' = IF vxlan /\ o \in {"ok", "failCluster"}
                            THEN ports \cup {FanDev} ELSE ports
              /\ th' = Upd(t, (IF FanDev \in ifaces' \ ifaces
                                 THEN [made |-> Append(th[t].made, FanDev)]
                                 ELSE [made |-> th[t].made])
                              @@ (IF o = "ok"
                                    THEN [dnsClustered |-> env.clustered] @@ Go(t)
                                    ELSE SetupFail(t, "s_fan")))
  /\ UNCHANGED <<bridgeKind, routes, helpers, sys, store, hist, env>>

\* Fan mode: the overlay address, then the VXLAN tunnel device (no device for
\* ipip, which reuses tunl0), then the cluster address lookup.
SetupFan(t) ==
  /\ UNCHANGED nonBridge
  /\ th[t].pc = "s_fan"
  /\ IF ~IsFan(cfg)
       THEN /\ th' = Upd(t, Go(t))
            /\ UNCHANGED <<ifaces, ports, addrs>>
       ELSE LET vxlan == cfg["fan.type"] # "ipip" IN
            \E o \in LinkOutcomes({"ok", "failPre", "failTun", "failAttach", "failCluster"}) :
              /\ o = "failAttach" => vxlan
              /\ o \in {"ok", "failAttach", "failCluster"} /\ vxlan => FanDev \notin ifaces
              /\ addrs' = IF o = "failPre" THEN addrs ELSE addrs \cup {<<4, AddrFan>>}
              /\ ifaces' = IF vxlan /\ o \in {"ok", "failAttach", "failCluster"}
                             THEN ifaces \cup {FanDev} ELSE ifaces
              /\ ports' = IF vxlan /\ o \in {"ok", "failCluster"}
                            THEN ports \cup {FanDev} ELSE ports
              /\ th' = Upd(t, (IF FanDev \in ifaces' \ ifaces
                                 THEN [made |-> Append(th[t].made, FanDev)]
                                 ELSE [made |-> th[t].made])
                              @@ (IF o = "ok"
                                    THEN [dnsClustered |-> env.clustered] @@ Go(t)
                                    ELSE SetupFail(t, "s_fan")))
  /\ UNCHANGED <<bridgeKind, routes, helpers, sys, store, hist, env>>

\* Named tunnels: a gre tunnel without local or remote is skipped; the device
\* is created, then attached and brought up.
SetupTunnels(t) ==
  /\ UNCHANGED nonBridge
  /\ th[t].pc = "s_tunnels"
  /\ LET proto == cfg["tunnel.t1.protocol"]
         skip == \/ getTunnels(cfg) = {}
                 \/ proto = "gre" /\ (cfg["tunnel.t1.local"] = "" \/ cfg["tunnel.t1.remote"] = "")
         adds == proto \in {"gre", "vxlan"}
     IN IF skip
          THEN /\ th' = Upd(t, Go(t))
               /\ UNCHANGED <<ifaces, ports>>
          ELSE \E o \in LinkOutcomes({"ok", "failAdd", "failAttach"}) :
                 /\ o = "failAdd" => adds
                 /\ o = "ok" => (adds \/ TunDev \in ifaces)
                 /\ o # "failAdd" /\ adds => TunDev \notin ifaces
                 /\ ifaces' = IF adds /\ o # "failAdd" THEN ifaces \cup {TunDev} ELSE ifaces
                 /\ ports' = IF o = "ok" THEN ports \cup {TunDev} ELSE ports
                 /\ th' = Upd(t, (IF TunDev \in ifaces' \ ifaces
                                    THEN [made |-> Append(th[t].made, TunDev)]
                                    ELSE [made |-> th[t].made])
                                 @@ (IF o = "ok" THEN Go(t) ELSE SetupFail(t, "s_tunnels")))
  /\ UNCHANGED <<bridgeKind, addrs, routes, helpers, sys, store, hist, env>>

SetupAppArmor(t) ==
  /\ UNCHANGED nonBridge
  /\ th[t].pc = "s_apparmor"
  /\ \E o \in Outcomes({"ok", "fail"}) :
       /\ apparmor' = IF o = "ok" THEN TRUE ELSE apparmor
       /\ th' = Upd(t, IF o = "ok" THEN Go(t) ELSE SetupFail(t, "s_apparmor"))
  /\ UNCHANGED <<kernel, helpers, fwRules, store, hist, env>>

\* Variant: the forwarder is never killed.
KillHelpersDnsmasqOnly(o) ==
  /\ dnsmasq' = IF o = "failDnsmasq" THEN dnsmasq ELSE KillTracked(dnsmasq, TRUE)
  /\ forkdns' = forkdns
  /\ o = "failDnsmasq" => dnsmasq.pidfile
  /\ o = "failForkdns" => forkdns.pidfile

\* Variant: the helpers of the previous run are left running.
KillHelpersNone(o) ==
  /\ dnsmasq' = dnsmasq
  /\ forkdns' = forkdns
  /\ o = "failDnsmasq" => dnsmasq.pidfile
  /\ o = "failForkdns" => forkdns.pidfile

\* dnsmasq.Kill removes the PID file; killForkDNS leaves it in place.
KillHelpers(o) ==
  /\ dnsmasq' = IF o = "failDnsmasq" THEN dnsmasq ELSE KillTracked(dnsmasq, TRUE)
  /\ forkdns' = IF o = "ok" THEN KillTracked(forkdns, FALSE) ELSE forkdns
  /\ o = "failDnsmasq" => dnsmasq.pidfile
  /\ o = "failForkdns" => forkdns.pidfile

SetupKillHelpers(t) ==
  /\ UNCHANGED nonBridge
  /\ th[t].pc = "s_kill"
  /\ \E o \in Outcomes({"ok", "failDnsmasq", "failForkdns"}) :
       /\ KillHelpers(o)
       /\ th' = Upd(t, IF o = "ok" THEN Go(t) ELSE SetupFail(t, "s_kill"))
  /\ UNCHANGED <<kernel, sys, store, hist, env>>

\* Variant: the wait after the launch has no deadline, so it returns only
\* when the process has exited.
SetupDnsmasqWaitsForExit(t) ==
  /\ UNCHANGED nonBridge
  /\ th[t].pc = "s_dnsmasq"
  /\ IF UsesDNSMasq(cfg)
       THEN \E o \in Outcomes({"ok", "failPre", "noDnsmasq", "failSave"}),
               alive \in {TRUE, ~env.faults} :
              /\ o # "ok" => alive
              /\ o \in {"ok", "failSave"} => ~alive
              /\ dnsmasq' = IF o = "ok" THEN Spawned(dnsmasq, alive) ELSE dnsmasq
              /\ th' = Upd(t, CASE o = "ok" -> [early |-> ~alive] @@ Go(t)
                                [] o = "noDnsmasq" -> SetupFail(t, o)
                                [] OTHER -> SetupFail(t, "s_dnsmasq"))
       ELSE \E o \in Outcomes({"ok", "fail"}) :
              /\ dnsmasq' = IF o = "ok"
                              THEN [dnsmasq EXCEPT !.pidfile = FALSE, !.tracked = FALSE]
                              ELSE dnsmasq
              /\ th' = Upd(t, IF o = "ok" THEN Go(t) ELSE SetupFail(t, "s_dnsmasq"))
  /\ UNCHANGED <<kernel, forkdns, sys, store, hist, env>>

\* Launch of dnsmasq: the process may exit within the health-check window,
\* which is logged only.  A failure to save the PID file stops the process.
SetupDnsmasq(t) ==
  /\ UNCHANGED nonBridge
  /\ th[t].pc = "s_dnsmasq"
  /\ IF UsesDNSMasq(cfg)
       THEN \E o \in Outcomes({"ok", "failPre", "noDnsmasq", "failSave"}),
               alive \in {TRUE, ~env.faults} :
              /\ o # "ok" => alive
              /\ dnsmasq' = IF o = "ok" THEN Spawned(dnsmasq, alive) ELSE dnsmasq
              /\ th' = Upd(t, CASE o = "ok" -> [early |-> ~alive] @@ Go(t)
                                [] o = "noDnsmasq" -> SetupFail(t, o)
                                [] OTHER -> SetupFail(t, "s_dnsmasq"))
       ELSE \E o \in Outcomes({"ok", "fail"}) :
              /\ dnsmasq' = IF o = "ok"
                              THEN [dnsmasq EXCEPT !.pidfile = FALSE, !.tracked = FALSE]
                              ELSE dnsmasq
              /\ th' = Upd(t, IF o = "ok" THEN Go(t) ELSE SetupFail(t, "s_dnsmasq"))
  /\ UNCHANGED <<kernel, forkdns, sys, store, hist, env>>

SetupForkDNS(t) ==
  /\ UNCHANGED nonBridge
  /\ th[t].pc = "s_forkdns"
  /\ IF UsesDNSMasq(cfg) /\ th[t].dnsClustered
       THEN \E o \in Outcomes({"ok", "failPre", "failSave"}) :
              /\ forkdns' = IF o = "ok" THEN Spawned(forkdns, TRUE) ELSE forkdns
              /\ th' = Upd(t, IF o = "ok" THEN Go(t) ELSE SetupFail(t, "s_forkdns"))
       ELSE /\ th' = Upd(t, Go(t))
            /\ UNCHANGED forkdns
  /\ UNCHANGED <<kernel, dnsmasq, sys, store, hist, env>>

SetupFirewall(t) ==
  /\ UNCHANGED nonBridge
  /\ th[t].pc = "s_firewall"
  /\ \E o \in Outcomes({"ok", "fail"}) :
       /\ fwRules' = IF o = "ok" THEN fwRules \cup fwOptsFamilies(cfg) ELSE fwRules
       /\ th' = Upd(t, IF o = "ok" THEN Go(t) ELSE SetupFail(t, "s_firewall"))
  /\ UNCHANGED <<kernel, helpers, apparmor, store, hist, env>>

\* Address forwards and BGP, then revert.Success().
SetupFinish(t) ==
  /\ UNCHANGED nonBridge
  /\ th[t].pc = "s_finish"
  /\ \E o \in Outcomes({"ok", "fail"}) :
       th' = Upd(t, IF o = "ok" THEN Return(t, FALSE) ELSE SetupFail(t, "s_finish"))
  /\ UNCHANGED <<kernel, helpers, sys, store, hist, env>>

\* revert.Fail(): the hooks run last-added first; then the error is returned.
SetupRevert(t) ==
  /\ UNCHANGED nonBridge
  /\ th[t].pc = "s_revert"
  /\ IF th[t].revert = <<>>
       THEN /\ th' = Upd(t, Return(t, TRUE))
            /\ UNCHANGED kernel
       ELSE LET n == Len(th[t].revert)
                dev == th[t].revert[n]
            IN /\ IF dev = Bridge THEN DeleteBridgeLink ELSE DeleteDevices({dev})
               /\ th' = Upd(t, [revert |-> SubSeq(th[t].revert, 1, n - 1),
                                undone |-> Append(th[t].undone, dev)])
  /\ UNCHANGED <<helpers, sys, store, hist, env>>

StartReturn(t) ==
  /\ UNCHANGED nonBridge
  /\ th[t].pc = "start_ret"
  /\ th' = [th EXCEPT ![t] = Returned(t)]
  /\ IF th[t].err
       THEN snap' = NoSnap /\ prevSnap' = NoSnap
       ELSE /\ snap' = [obs |-> Observable, early |-> th[t].early,
                         quiet |-> th[t].quiet, config |-> cfg]
            /\ prevSnap' = snap
  /\ UNCHANGED <<kernel, helpers, sys, store, env>>

-----------------------------------------------------------------------------
\* Stop.

StopBegin(t) ==
  /\ UNCHANGED nonBridge
  /\ th[t].pc = "idle"
  /\ t \in env.workers /\ env.ops < env.limit
  /\ db # NoNet
  /\ th' = [th EXCEPT ![t] = ([op |-> "Stop", wasRunning |-> isRunning,
                               retry |-> th[t].torn,
                               before |-> Before, stack |-> <<"stop_ret">>, calls |-> <<"Stop">>]
                              @@ CallStop(t, "stop_ret")) @@ IdleThread]
  /\ snap' = NoSnap /\ prevSnap' = NoSnap
  /\ \E f \in BOOLEAN : Admit(f)
  /\ UNCHANGED <<kernel, helpers, sys, store>>

\* Variant: Stop does not look whether the bridge is running.
StopCheckAlways(t) ==
  /\ UNCHANGED nonBridge
  /\ th[t].pc = "p_check"
  /\ \E o \in Outcomes({"ok", "fail"}) :
       th' = Upd(t, IF o = "ok" THEN [pc |-> "p_bridge"] ELSE StopFail(t, "p_check"))
  /\ UNCHANGED <<kernel, helpers, sys, store, hist, env>>

StopCheck(t) ==
  /\ UNCHANGED nonBridge
  /\ th[t].pc = "p_check"
  /\ IF ~isRunning
       THEN th' = Upd(t, Return(t, FALSE))
       ELSE \E o \in Outcomes({"ok", "fail"}) :
              th' = Upd(t, IF o = "ok" THEN [pc |-> "p_bridge"] ELSE StopFail(t, "p_check"))
  /\ UNCHANGED <<kernel, helpers, sys, store, hist, env>>

\* The bridge is destroyed through the backend the config names.
StopBridge(t) ==
  /\ UNCHANGED nonBridge
  /\ th[t].pc = "p_bridge"
  /\ LET driver == IF IsOVS(cfg) THEN "openvswitch" ELSE "native" IN
     \E o \in (IF bridgeKind = driver THEN Outcomes({"ok", "fail"}) ELSE {"fail"}) :
       IF o = "ok"
         THEN /\ DeleteBridgeLink
              /\ th' = Upd(t, [pc |-> "p_firewall"])
         ELSE /\ th' = Upd(t, StopFail(t, "p_bridge"))
              /\ UNCHANGED kernel
  /\ UNCHANGED <<helpers, sys, store, hist, env>>

StopFirewall(t) ==
  /\ UNCHANGED nonBridge
  /\ th[t].pc = "p_firewall"
  /\ LET vs == fwClearIPVersions(cfg, NoConfig) IN
     IF vs = {}
       THEN /\ th' = Upd(t, [pc |-> "p_kill"])
            /\ UNCHANGED fwRules
       ELSE \E o \in Outcomes({"ok", "fail"}) :
              /\ fwRules' = IF o = "ok" THEN fwRules \ vs ELSE fwRules
              /\ th' = Upd(t, IF o = "ok" THEN [pc |-> "p_kill"]
                              ELSE StopFail(t, "p_firewall"))
  /\ UNCHANGED <<kernel, apparmor, helpers, store, hist, env>>

StopKillHelpers(t) ==
  /\ UNCHANGED nonBridge
  /\ th[t].pc = "p_kill"
  /\ \E o \in Outcomes({"ok", "failDnsmasq", "failForkdns"}) :
       /\ KillHelpers(o)
       /\ th' = Upd(t, IF o = "ok" THEN [pc |-> "p_tunnels"] ELSE StopFail(t, "p_kill"))
  /\ UNCHANGED <<kernel, sys, store, hist, env>>

StopTunnels(t) ==
  /\ UNCHANGED nonBridge
  /\ th[t].pc = "p_tunnels"
  /\ LET old == {d \in ifaces : HasBridgePrefix(d)} IN
     \E o \in Outcomes({"ok", "fail"}) :
       IF o = "ok"
         THEN /\ DeleteDevices(old)
              /\ th' = Upd(t, [pc |-> "p_apparmor"])
         ELSE /\ \E D \in SUBSET old : (D # old \/ old = {}) /\ DeleteDevices(D)
              /\ th' = Upd(t, StopFail(t, "p_tunnels"))
  /\ UNCHANGED <<helpers, sys, store, hist, env>>

StopAppArmor(t) ==
  /\ UNCHANGED nonBridge
  /\ th[t].pc = "p_apparmor"
  /\ \E o \in Outcomes({"ok", "fail"}) :
       /\ apparmor' = IF o = "ok" THEN FALSE ELSE apparmor
       /\ th' = Upd(t, IF o = "ok" THEN Return(t, FALSE) ELSE StopFail(t, "p_apparmor"))
  /\ UNCHANGED <<kernel, helpers, fwRules, store, hist, env>>

\* The answer of a Stop that failed after it had deleted the bridge is
\* remembered until the worker's next request (torn), so that a Stop which
\* follows it is known as a retry.
StopReturn(t) ==
  /\ UNCHANGED nonBridge
  /\ th[t].pc = "stop_ret"
  /\ th' = [th EXCEPT ![t] =
              [torn |-> th[t].err /\ th[t].failedAt \in {"p_firewall", "p_kill", "p_tunnels"}]
              @@ Returned(t)]
  /\ UNCHANGED <<kernel, helpers, sys, store, hist, env>>

-----------------------------------------------------------------------------
\* Update.

Descriptions == {"d0", "d1"}
NetworkPuts == [config : Configs, description : Descriptions]

\* common.configChanged: the keys whose value differs, and whether anything
\* (a key or the description) differs at all.
changedKeys(old, new) == {k \in Keys : old.config[k] # new.config[k]}
dbUpdateNeeded(old, new) ==
  changedKeys(old, new) # {} \/ old.description # new.description

\* common.update: the network object takes the config first, then the cluster
\* members and the database are written, which may fail.
CommonUpdate(target, o) ==
  /\ net' = target
  /\ db' = IF o = "ok" THEN target ELSE db
  /\ UNCHANGED status

\* Variant: a pending network is updated like a created one.
UpdateBeginNoPending(t) ==
  /\ UNCHANGED nonBridge
  /\ th[t].pc = "idle"
  /\ t \in env.workers /\ env.ops < env.limit
  /\ db # NoNet
  /\ \E new \in env.puts :
       th' = [th EXCEPT ![t] =
                [op |-> "Update", newNet |-> new, oldNet |-> net,
                 changed |-> changedKeys(net, new), before |-> Before,
                 pc |-> IF ~dbUpdateNeeded(net, new) THEN "update_ret" ELSE "u_stop",
                 armed |-> changedKeys(net, new) # {}] @@ IdleThread]
  /\ snap' = NoSnap /\ prevSnap' = NoSnap
  /\ \E f \in BOOLEAN : Admit(f)
  /\ UNCHANGED <<kernel, helpers, sys, store>>

UpdateBegin(t) ==
  /\ UNCHANGED nonBridge
  /\ th[t].pc = "idle"
  /\ t \in env.workers /\ env.ops < env.limit
  /\ db # NoNet
  /\ \E new \in env.puts :
       th' = [th EXCEPT ![t] =
                [op |-> "Update", newNet |-> new, oldNet |-> net,
                 changed |-> changedKeys(net, new), before |-> Before,
                 pc |-> IF ~dbUpdateNeeded(net, new) THEN "update_ret"
                        ELSE IF status = "pending" THEN "u_pending"
                        ELSE "u_stop",
                 armed |-> /\ dbUpdateNeeded(net, new) /\ status # "pending"
                           /\ changedKeys(net, new) # {}] @@ IdleThread]
  /\ snap' = NoSnap /\ prevSnap' = NoSnap
  /\ \E f \in BOOLEAN : Admit(f)
  /\ UNCHANGED <<kernel, helpers, sys, store>>

UpdatePending(t) ==
  /\ UNCHANGED nonBridge
  /\ th[t].pc = "u_pending"
  /\ \E o \in Outcomes({"ok", "fail"}) :
       /\ CommonUpdate(th[t].newNet, o)
       /\ th' = Upd(t, [pc |-> "update_ret", err |-> o # "ok",
                        ufail |-> IF o = "ok" THEN "" ELSE "persist"])
  /\ UNCHANGED <<kernel, helpers, sys, hist, env>>

\* Variant: the bridge is not brought down when the driver changes.
UpdateStopSkipped(t) ==
  /\ UNCHANGED nonBridge
  /\ th[t].pc = "u_stop"
  /\ th' = Upd(t, [pc |-> "u_detach"])
  /\ UNCHANGED <<kernel, helpers, sys, store, hist, env>>

\* Bring the bridge down entirely if the driver has changed.
UpdateStop(t) ==
  /\ UNCHANGED nonBridge
  /\ th[t].pc = "u_stop"
  /\ th' = Upd(t, IF "bridge.driver" \in th[t].changed /\ isRunning
                    THEN CallStop(t, "u_stopped")
                    ELSE [pc |-> "u_detach"])
  /\ UNCHANGED <<kernel, helpers, sys, store, hist, env>>

UpdateStopped(t) ==
  /\ UNCHANGED nonBridge
  /\ th[t].pc = "u_stopped"
  /\ th' = Upd(t, IF th[t].err THEN [pc |-> "u_fail", ufail |-> "stop"]
                  ELSE [pc |-> "u_detach"])
  /\ UNCHANGED <<kernel, helpers, sys, store, hist, env>>

\* Detach the external interface of the old config that the new one drops.
UpdateDetach(t) ==
  /\ UNCHANGED nonBridge
  /\ th[t].pc = "u_detach"
  /\ LET dev == th[t].oldNet.config["bridge.external_interfaces"]
         drop == /\ "bridge.external_interfaces" \in th[t].changed
                 /\ isRunning
                 /\ dev # ""
                 /\ dev # th[t].newNet.config["bridge.external_interfaces"]
                 /\ InterfaceExists(dev)
     IN IF drop
          THEN \E o \in Outcomes({"ok", "fail"}) :
                 /\ ports' = IF o = "ok" THEN ports \ {dev} ELSE ports
                 /\ th' = Upd(t, IF o = "ok" THEN [pc |-> "u_persist"]
                                 ELSE [pc |-> "u_fail", ufail |-> "detach"])
          ELSE /\ th' = Upd(t, [pc |-> "u_persist"])
               /\ UNCHANGED ports
  /\ UNCHANGED <<ifaces, bridgeKind, addrs, routes, helpers, sys, store, hist, env>>

UpdatePersist(t) ==
  /\ UNCHANGED nonBridge
  /\ th[t].pc = "u_persist"
  /\ \E o \in Outcomes({"ok", "fail"}) :
       /\ CommonUpdate(th[t].newNet, o)
       /\ th' = Upd(t, IF o = "ok" THEN [pc |-> "u_setup"]
                       ELSE [pc |-> "u_fail", ufail |-> "persist"])
  /\ UNCHANGED <<kernel, helpers, sys, hist, env>>

UpdateSetup(t) ==
  /\ UNCHANGED nonBridge
  /\ th[t].pc = "u_setup"
  /\ th' = Upd(t, IF th[t].changed # {}
                    THEN CallSetup(t, th[t].oldNet.config, "u_setup_ret")
                    ELSE [pc |-> "update_ret", err |-> FALSE])
  /\ UNCHANGED <<kernel, helpers, sys, store, hist, env>>

UpdateSetupReturn(t) ==
  /\ UNCHANGED nonBridge
  /\ th[t].pc = "u_setup_ret"
  /\ th' = Upd(t, IF th[t].err THEN [pc |-> "u_fail", ufail |-> "setup"]
                  ELSE [pc |-> "update_ret"])
  /\ UNCHANGED <<kernel, helpers, sys, store, hist, env>>

\* Variant: the rollback re-runs setup without writing the old network back.
UpdateFailNoRestore(t) ==
  /\ UNCHANGED nonBridge
  /\ th[t].pc = "u_fail"
  /\ th' = Upd(t, IF th[t].armed THEN [pc |-> "u_resetup", rbPersist |-> "ok"]
                  ELSE [pc |-> "update_ret", err |-> TRUE])
  /\ UNCHANGED <<kernel, helpers, sys, store, hist, env>>

\* The deferred revert.Fail() of Update: when a key changed, the hook writes
\* the old network back and re-runs setup; neither error is looked at.
UpdateFail(t) ==
  /\ UNCHANGED nonBridge
  /\ th[t].pc = "u_fail"
  /\ IF th[t].armed
       THEN \E o \in Outcomes({"ok", "fail"}) :
              /\ CommonUpdate(th[t].oldNet, o)
              /\ th' = Upd(t, [pc |-> "u_resetup", rbPersist |-> o])
       ELSE /\ th' = Upd(t, [pc |-> "update_ret", err |-> TRUE])
            /\ UNCHANGED store
  /\ UNCHANGED <<kernel, helpers, sys, hist, env>>

UpdateResetup(t) ==
  /\ UNCHANGED nonBridge
  /\ th[t].pc = "u_resetup"
  /\ th' = Upd(t, CallSetup(t, th[t].newNet.config, "u_rolled"))
  /\ UNCHANGED <<kernel, helpers, sys, store, hist, env>>

UpdateRolledBack(t) ==
  /\ UNCHANGED nonBridge
  /\ th[t].pc = "u_rolled"
  /\ th' = Upd(t, [pc |-> "update_ret", err |-> TRUE, rbSetupErr |-> th[t].err])
  /\ UNCHANGED <<kernel, helpers, sys, store, hist, env>>

UpdateReturn(t) ==
  /\ UNCHANGED nonBridge
  /\ th[t].pc = "update_ret"
  /\ th' = [th EXCEPT ![t] = Returned(t)]
  /\ UNCHANGED <<kernel, helpers, sys, store, hist, env>>

UpdateSteps(t) ==
  \/ UpdatePending(t) \/ UpdateStop(t) \/ UpdateStopped(t) \/ UpdateDetach(t)
  \/ UpdatePersist(t) \/ UpdateSetup(t) \/ UpdateSetupReturn(t) \/ UpdateFail(t)
  \/ UpdateResetup(t) \/ UpdateRolledBack(t)

-----------------------------------------------------------------------------
\* Create and Delete.

\* Variant: Create does not look for an interface of that name.
CreateUnchecked(t) ==
  /\ UNCHANGED nonBridge
  /\ th[t].pc = "idle"
  /\ t \in env.workers /\ env.ops < env.limit
  /\ db = NoNet
  /\ \E c \in Configs :
       /\ th' = [th EXCEPT ![t] = [op |-> "Create", err |-> FALSE, pc |-> "create_ret",
                                   before |-> Before] @@ IdleThread]
       /\ net' = [config |-> c, description |-> "d0"]
       /\ db' = net'
       /\ status' = "pending"
  /\ snap' = NoSnap /\ prevSnap' = NoSnap
  /\ Admit(FALSE)
  /\ UNCHANGED <<kernel, helpers, sys>>

\* Create only checks the interface name; on success the caller registers the
\* network, pending until it has been started.
Create(t) ==
  /\ UNCHANGED nonBridge
  /\ th[t].pc = "idle"
  /\ t \in env.workers /\ env.ops < env.limit
  /\ db = NoNet
  /\ \E c \in Configs :
       LET exists == InterfaceExists(Bridge) IN
       /\ th' = [th EXCEPT ![t] = [op |-> "Create", err |-> exists, pc |-> "create_ret",
                                   before |-> Before] @@ IdleThread]
       /\ IF exists
            THEN UNCHANGED store
            ELSE /\ net' = [config |-> c, description |-> "d0"]
                 /\ db' = net'
                 /\ status' = "pending"
  /\ snap' = NoSnap /\ prevSnap' = NoSnap
  /\ Admit(FALSE)
  /\ UNCHANGED <<kernel, helpers, sys>>

\* The caller marks the network created once its first Start has succeeded.
NetworkCreated(t) ==
  /\ UNCHANGED nonBridge
  /\ th[t].pc = "idle" /\ th[t].op = "Start" /\ ~th[t].err
  /\ db # NoNet /\ status = "pending"
  /\ status' = "created"
  /\ UNCHANGED <<kernel, helpers, sys, net, db, th, hist, env>>

DeleteBegin(t) ==
  /\ UNCHANGED nonBridge
  /\ th[t].pc = "idle"
  /\ t \in env.workers /\ env.ops < env.limit
  /\ db # NoNet
  /\ th' = [th EXCEPT ![t] =
              (IF isRunning
                 THEN [stack |-> <<"d_stopped">>, calls |-> <<"Stop">>]
                      @@ CallStop(t, "d_stopped")
                 ELSE [pc |-> "d_apparmor"])
              @@ [op |-> "Delete", wasRunning |-> isRunning, before |-> Before]
              @@ IdleThread]
  /\ snap' = NoSnap /\ prevSnap' = NoSnap
  /\ \E f \in BOOLEAN : Admit(f)
  /\ UNCHANGED <<kernel, helpers, sys, store>>

\* Variant: Delete goes on when Stop failed.
DeleteStoppedIgnore(t) ==
  /\ UNCHANGED nonBridge
  /\ th[t].pc = "d_stopped"
  /\ th' = Upd(t, [pc |-> "d_apparmor"])
  /\ UNCHANGED <<kernel, helpers, sys, store, hist, env>>

DeleteStopped(t) ==
  /\ UNCHANGED nonBridge
  /\ th[t].pc = "d_stopped"
  /\ th' = Upd(t, IF th[t].err THEN [pc |-> "delete_ret", ufail |-> "stop"]
                  ELSE [pc |-> "d_apparmor"])
  /\ UNCHANGED <<kernel, helpers, sys, store, hist, env>>

DeleteAppArmor(t) ==
  /\ UNCHANGED nonBridge
  /\ th[t].pc = "d_apparmor"
  /\ \E o \in Outcomes({"ok", "fail"}) :
       /\ apparmor' = IF o = "ok" THEN FALSE ELSE apparmor
       /\ th' = Upd(t, IF o = "ok" THEN [pc |-> "d_record", calls |-> Append(th[t].calls, "unload")]
                       ELSE [pc |-> "delete_ret", err |-> TRUE, ufail |-> "unload"])
  /\ UNCHANGED <<kernel, helpers, fwRules, store, hist, env>>

\* common.delete removes the persisted record.
DeleteRecord(t) ==
  /\ UNCHANGED nonBridge
  /\ th[t].pc = "d_record"
  /\ \E o \in Outcomes({"ok", "fail"}) :
       /\ db' = IF o = "ok" THEN NoNet ELSE db
       /\ th' = Upd(t, [pc |-> "delete_ret", err |-> o # "ok",
                        ufail |-> IF o = "ok" THEN "" ELSE "record",
                        calls |-> Append(th[t].calls, "delete")])
  /\ UNCHANGED <<kernel, helpers, sys, net, status, hist, env>>

DeleteReturn(t) ==
  /\ UNCHANGED nonBridge
  /\ th[t].pc = "delete_ret"
  /\ th' = [th EXCEPT ![t] = Returned(t)]
  /\ UNCHANGED <<kernel, helpers, sys, store, hist, env>>

CreateReturn(t) ==
  /\ UNCHANGED nonBridge
  /\ th[t].pc = "create_ret"
  /\ th' = [th EXCEPT ![t] = Returned(t)]
  /\ UNCHANGED <<kernel, helpers, sys, store, hist, env>>

DeleteSteps(t) == DeleteStopped(t) \/ DeleteAppArmor(t) \/ DeleteRecord(t)

MaxBootOps == 2     \* Starts in one run with boot routes

\* Another mechanism adds a boot route to the running bridge, between two
\* requests.
ForeignBootRouteAdd(fam) ==
  /\ UNCHANGED nonBridge
  /\ isRunning /\ \A t \in Workers : th[t].pc = "idle"
  /\ \E b \in BootRoutes(fam) :
       /\ routes[b] = 0
       /\ routes' = [routes EXCEPT ![b] = 1]
  /\ UNCHANGED <<ifaces, bridgeKind, ports, addrs, helpers, sys, store, hist, env, th>>

\* An interface with the bridge's name that lxd did not create, while no
\* network of that name is registered.
ForeignLinkAdd ==
  /\ UNCHANGED nonBridge
  /\ db = NoNet /\ Bridge \notin ifaces
  /\ \A t \in Workers : th[t].pc = "idle"
  /\ ifaces' = ifaces \cup {Bridge}
  /\ bridgeKind' = "foreign"
  /\ UNCHANGED <<ports, addrs, routes, helpers, sys, store, th, hist, env>>

ForeignLinkDel ==
  /\ UNCHANGED nonBridge
  /\ bridgeKind = "foreign"
  /\ \A t \in Workers : th[t].pc = "idle"
  /\ DeleteBridgeLink
  /\ UNCHANGED <<helpers, sys, store, th, hist, env>>

-----------------------------------------------------------------------------
\* The zone-transfer handler (package dns, handler.go).
\*
\* A string that the code takes apart is a sequence of its pieces: the config
\* key "peers.a.address" is <<"peers", "a", "address">>, the question name
\* "example.com." is <<"example.com", ".">>, the remote address
\* "10.0.0.5:40000" is <<"10.0.0.5", ":", "40000">> and the TSIG key name
\* "example.com_a." is <<"example.com", "_", "a", ".">>.

MaxKeys == 3         \* keys in one zone's config
MaxRecords == 2      \* entries in one zone's content
MaxQuestions == 2    \* questions in one request

Fudge == 300

ZoneKeys == {<<"peers", "a", "address">>, <<"peers", "a", "key">>,
             <<"peers", "b", "address">>, <<"peers", "b", "key">>,
             <<"peers", "b", "key", "old">>, <<"peers", "c">>,
             <<"dns", "nameservers">>}

ZoneValues(k) ==
  IF k[1] # "peers" \/ Len(k) # 3 THEN {"x"}
  ELSE IF k[3] = "address" THEN {"", "10.0.0.5"}
  ELSE {"", "secret"}

AllZoneValues == UNION {ZoneValues(k) : k \in ZoneKeys}

ZoneConfigs ==
  UNION {{c \in [K -> AllZoneValues] : \A k \in K : c[k] \in ZoneValues(k)} :
           K \in {K \in SUBSET ZoneKeys : Cardinality(K) <= MaxKeys}}

ZoneEntries == {"rr1", "rr2", "junk"}
ZoneContents == UNION {[1..n -> ZoneEntries] : n \in 0..MaxRecords}

QNames == {<<"example.com", ".">>, <<"other.org">>}
Questions == [name : QNames, qtype : {"AXFR", "A"}]
QuestionLists == UNION {[1..n -> Questions] : n \in 0..MaxQuestions}

NoTsig == [none |-> TRUE]
Tsigs == [name : {<<"example.com", "_", "a", ".">>, <<"other.org", "_", "a", ".">>},
          algorithm : {"hmac-sha256"}]

RemoteAddrs == {<<"10.0.0.5", ":", "40000">>, <<"10.0.0.9", ":", "40000">>,
                <<"10.0.0.5">>}

\* r: the request message.
Requests == [id : {7}, question : QuestionLists, tsig : {NoTsig} \cup Tsigs]

\* w: the response writer's view of the connection; tsigStatus is TRUE when
\* w.TsigStatus() is nil, which it is for a request without a TSIG.
Writers(r) ==
  [remote : RemoteAddrs,
   tsigStatus : IF r.tsig = NoTsig THEN {TRUE} ELSE BOOLEAN]

\* strings.TrimSuffix(s, ".")
TrimSuffix(s) ==
  IF Len(s) > 0 /\ s[Len(s)] = "." THEN SubSeq(s, 1, Len(s) - 1) ELSE s

\* net.SplitHostPort
SplitHostPort(a) ==
  IF Len(a) = 3 /\ a[2] = ":" THEN [host |-> a[1], err |-> FALSE]
  ELSE [host |-> "", err |-> TRUE]

\* strings.HasPrefix(k, "peers.")
HasPeersPrefix(k) == Len(k) >= 2 /\ k[1] = "peers"

\* strings.SplitN(k, ".", n): the last field keeps the rest of the key.
SplitN(k, n) ==
  IF Len(k) < n THEN [i \in 1..Len(k) |-> <<k[i]>>]
  ELSE [i \in 1..n |-> IF i < n THEN <<k[i]>> ELSE SubSeq(k, n, Len(k))]

\* The messages of the DNS library.
NoMsg == [none |-> TRUE]

SetReply(r) ==
  [id |-> r.id, response |-> TRUE, rcode |-> "NoError", authoritative |-> FALSE,
   question |-> IF Len(r.question) > 0 THEN <<r.question[1]>> ELSE <<>>,
   answer |-> <<>>, tsig |-> NoTsig]

SetRcode(r, rcode) == [SetReply(r) EXCEPT !.rcode = rcode]

SetTsig(m, name, algorithm, fudge) ==
  [m EXCEPT !.tsig = [name |-> name, algorithm |-> algorithm, fudge |-> fudge]]

\* dns.NewZoneParser and its Next: the records up to the first entry that
\* does not parse.
RECURSIVE ZoneRecords(_)
ZoneRecords(content) ==
  IF content = <<>> \/ Head(content) = "junk" THEN <<>>
  ELSE <<Head(content)>> \o ZoneRecords(Tail(content))

\* The orders in which a map with key set S can be iterated.
Orders(S) ==
  {q \in [1..Cardinality(S) -> S] : \A x \in S : \E i \in DOMAIN q : q[i] = x}

NoPeer == [address |-> "", key |-> ""]

\* isAllowed, first loop: the peers of a zone config, its keys visited in order.
RECURSIVE buildPeers(_, _, _)
buildPeers(config, order, peers) ==
  IF order = <<>> THEN peers
  ELSE
    LET k == Head(order)
        v == config[k]
        fields == SplitN(k, 3)
        peerName == fields[2][1]
        made == IF peerName \in DOMAIN peers THEN peers
                ELSE peers @@ (peerName :> NoPeer)
    IN buildPeers(config, Tail(order),
         IF ~HasPeersPrefix(k) \/ Len(fields) # 3 THEN peers
         ELSE IF fields[3] = <<"address">>
           THEN [made EXCEPT ![peerName].address = v]
         ELSE IF fields[3] = <<"key">>
           THEN [made EXCEPT ![peerName].key = v]
         ELSE made)

\* A round of the second loop that never compares the key name.
trustedPeerAnyKey(zoneName, peerName, peer, ip, tsig, tsigStatus) ==
  /\ ~(peer.address # "" /\ ip # peer.address)
  /\ ~(peer.key # "" /\ (tsig = NoTsig \/ ~tsigStatus))

\* One round of the second loop: TRUE when no continue is taken.
trustedPeer(zoneName, peerName, peer, ip, tsig, tsigStatus) ==
  LET peerKeyName == <<zoneName, "_", peerName, ".">>
  IN /\ ~(peer.address # "" /\ ip # peer.address)
     /\ ~(peer.key # "" /\ (tsig = NoTsig \/ ~tsigStatus))
     /\ ~(peer.key # "" /\ tsig.name # peerKeyName)

\* A second loop that gives up at the first peer it does not trust.
RECURSIVE validateFirstOnly(_, _, _, _, _, _)
validateFirstOnly(zoneName, peers, order, ip, tsig, tsigStatus) ==
  IF order = <<>> THEN FALSE
  ELSE trustedPeer(zoneName, Head(order), peers[Head(order)], ip, tsig, tsigStatus)

\* isAllowed, second loop, the peers visited in order.
RECURSIVE validate(_, _, _, _, _, _)
validate(zoneName, peers, order, ip, tsig, tsigStatus) ==
  IF order = <<>> THEN FALSE
  ELSE IF trustedPeer(zoneName, Head(order), peers[Head(order)], ip, tsig, tsigStatus)
    THEN TRUE
  ELSE validate(zoneName, peers, Tail(order), ip, tsig, tsigStatus)

EmptyPeers == [n \in {} |-> NoPeer]

isAllowed(zone, ip, tsig, tsigStatus, keyOrder, peerOrder) ==
  validate(zone.name, buildPeers(zone.config, keyOrder, EmptyPeers), peerOrder,
           ip, tsig, tsigStatus)

\* d.server.zoneRetriever(name): an error, or the zone of that name with the
\* config and content it has at the time of the call.
NoZone == [none |-> TRUE]
Zones(name) == [name : {name[1]}, config : ZoneConfigs, content : ZoneContents]
zoneRetriever(name) == [err : {"notfound", "failed"}] \cup Zones(name)

DNSIdle(ready) ==
  [pc |-> "idle", ready |-> ready, r |-> NoMsg, w |-> NoMsg, name |-> <<>>,
   ip |-> "", lookupErr |-> "", zone |-> NoZone, m |-> NoMsg, allowed |-> FALSE,
   written |-> <<>>, lookups |-> 0]

\* w.WriteMsg(m); return
WriteMsg(d, m) == [d EXCEPT !.written = Append(@, m), !.pc = "done"]

\* m := new(dns.Msg); m.SetRcode(r, rcode); w.WriteMsg(m); return
Reject(d, rcode) == WriteMsg(d, SetRcode(d.r, rcode))

\* The server hands a request to ServeDNS.
Receive ==
  /\ dns.pc = "idle"
  /\ \E r \in Requests : \E w \in Writers(r) :
       dns' = [DNSIdle(dns.ready) EXCEPT !.pc = "ready", !.r = r, !.w = w]
  /\ UNCHANGED notDNS

CheckReady ==
  /\ dns.pc = "ready"
  /\ dns' = IF ~dns.ready THEN Reject(dns, "ServerFailure")
            ELSE [dns EXCEPT !.pc = "question"]
  /\ UNCHANGED notDNS

\* A request with several questions that gets no answer at all.
CheckQuestionSilent ==
  /\ dns.pc = "question"
  /\ dns' = [dns EXCEPT !.pc = IF Len(dns.r.question) # 1 THEN "done" ELSE "type"]
  /\ UNCHANGED notDNS

CheckQuestion ==
  /\ dns.pc = "question"
  /\ dns' = IF Len(dns.r.question) # 1 THEN Reject(dns, "ServerFailure")
            ELSE [dns EXCEPT !.pc = "type"]
  /\ UNCHANGED notDNS

CheckType ==
  /\ dns.pc = "type"
  /\ dns' = IF dns.r.question[1].qtype # "AXFR" THEN Reject(dns, "NotImplemented")
            ELSE [dns EXCEPT !.pc = "remote"]
  /\ UNCHANGED notDNS

\* A handler that takes the whole remote address when it has no port.
ParseRemoteLenient ==
  /\ dns.pc = "remote"
  /\ dns' = [dns EXCEPT !.name = TrimSuffix(dns.r.question[1].name),
                        !.ip = dns.w.remote[1], !.pc = "load"]
  /\ UNCHANGED notDNS

ParseRemote ==
  /\ dns.pc = "remote"
  /\ LET name == TrimSuffix(dns.r.question[1].name)
         split == SplitHostPort(dns.w.remote)
     IN dns' = IF split.err THEN Reject([dns EXCEPT !.name = name], "ServerFailure")
               ELSE [dns EXCEPT !.name = name, !.ip = split.host, !.pc = "load"]
  /\ UNCHANGED notDNS

LoadZone ==
  /\ dns.pc = "load"
  /\ LET m == [SetReply(dns.r) EXCEPT !.authoritative = TRUE]
         called == [dns EXCEPT !.m = m, !.lookups = @ + 1]
     IN \E zone \in zoneRetriever(dns.name) :
          dns' = IF "err" \in DOMAIN zone
                   THEN Reject([called EXCEPT !.lookupErr = zone.err], "NameError")
                 ELSE [called EXCEPT !.zone = zone, !.pc = "access"]
  /\ UNCHANGED notDNS

\* A denial that sets the code on the reply prepared for the transfer.
CheckAccessPrepared ==
  /\ dns.pc = "access"
  /\ \E keyOrder \in Orders(DOMAIN dns.zone.config) :
       \E peerOrder \in Orders(DOMAIN buildPeers(dns.zone.config, keyOrder, EmptyPeers)) :
         dns' = IF ~isAllowed(dns.zone, dns.ip, dns.r.tsig, dns.w.tsigStatus,
                              keyOrder, peerOrder)
                  THEN WriteMsg(dns, [dns.m EXCEPT !.rcode = "NameError"])
                ELSE [dns EXCEPT !.allowed = TRUE, !.pc = "answer"]
  /\ UNCHANGED notDNS

CheckAccess ==
  /\ dns.pc = "access"
  /\ \E keyOrder \in Orders(DOMAIN dns.zone.config) :
       \E peerOrder \in Orders(DOMAIN buildPeers(dns.zone.config, keyOrder, EmptyPeers)) :
         dns' = IF ~isAllowed(dns.zone, dns.ip, dns.r.tsig, dns.w.tsigStatus,
                              keyOrder, peerOrder)
                  THEN Reject(dns, "NameError")
                ELSE [dns EXCEPT !.allowed = TRUE, !.pc = "answer"]
  /\ UNCHANGED notDNS

\* A reply signed whenever the request carried a TSIG.
SignUnverified(r, w, m) ==
  IF r.tsig # NoTsig THEN SetTsig(m, r.tsig.name, r.tsig.algorithm, Fudge) ELSE m

\* if tsig != nil && w.TsigStatus() == nil { m.SetTsig(...) }
Sign(r, w, m) ==
  IF r.tsig # NoTsig /\ w.tsigStatus
    THEN SetTsig(m, r.tsig.name, r.tsig.algorithm, Fudge)
  ELSE m

\* A transfer that sends the records without the authoritative flag.
AnswerPlain ==
  /\ dns.pc = "answer"
  /\ LET m == [SetReply(dns.r) EXCEPT !.answer = @ \o ZoneRecords(dns.zone.content)]
     IN dns' = WriteMsg([dns EXCEPT !.m = m], Sign(dns.r, dns.w, m))
  /\ UNCHANGED notDNS

Answer ==
  /\ dns.pc = "answer"
  /\ LET m == [dns.m EXCEPT !.answer = @ \o ZoneRecords(dns.zone.content)]
         signed == Sign(dns.r, dns.w, m)
     IN dns' = WriteMsg([dns EXCEPT !.m = signed], signed)
  /\ UNCHANGED notDNS

\* ServeDNS has returned; the server waits for the next request.
Served ==
  /\ dns.pc = "done"
  /\ dns' = DNSIdle(dns.ready)
  /\ UNCHANGED notDNS

-----------------------------------------------------------------------------
\* The forkdns servers file and the cluster heartbeat (bridge.HandleHeartbeat,
\* bridge.updateForkdnsServersFile).
\*
\* A file is the sequence of what was written to it: an address list of
\* <<"10.0.0.2", "10.0.0.3">> is stored as <<"10.0.0.2", "\n", "10.0.0.3", "\n">>.

\* What stands for the content where there is no file.
NoFile == <<"ENOENT">>

MaxInodes == 4      \* files that exist at one time, unlinked but open ones included
MaxBeats == 3       \* heartbeats in one run, one after the other
MaxConcBeats == 2   \* heartbeats in one run, two at a time

Inodes == 1..MaxInodes

\* A heartbeat that is not running.
HBIdle ==
  [pc |-> "idle", members |-> <<>>, i |-> 0, addresses |-> <<>>, err |-> "",
   states |-> <<>>, file |-> 0, off |-> 0, j |-> 0, wrote |-> FALSE,
   renamed |-> FALSE, before |-> NoFile]

\* No servers file yet, nobody holds forkdnsServersLock.
FdnsInit ==
  [ino |-> [i \in Inodes |-> NoFile], perm |-> 0, tmp |-> 0, lock |-> "free",
   hb |-> [t \in Workers |-> HBIdle], current |-> NoFile,
   published |-> {NoFile}, seen |-> NoFile,
   beats |-> 0, lastErr |-> "", limit |-> 0, workers |-> {}, inputs |-> {}]

LocalAddress == "n1"

\* heartbeatData.Members, in the order of the heartbeat.
Member(a, online) == [address |-> a, online |-> online]
MemberLists ==
  {<<Member("n1", TRUE), Member("n2", TRUE), Member("n3", on)>> : on \in BOOLEAN}
    \cup {<<Member("n3", TRUE), Member("n1", TRUE), Member("n2", on)>> : on \in BOOLEAN}

IPOf(a) == IF a = "n2" THEN "10.0.0.2" ELSE "10.0.0.3"

Addr(family, scope, address) ==
  [family |-> family, scope |-> scope, address |-> address]

\* client.GetNetworkState(n.name).Addresses of a member, when it answers.
NetworkStates(a) ==
  {<<Addr("inet6", "global", "fd42::1"), Addr("inet", "link", "169.254.0.1"),
     Addr("inet", "global", IPOf(a)), Addr("inet", "global", "192.0.2.9")>>,
   <<Addr("inet6", "global", "fd42::1")>>}

\* An inner loop without its break: every global IPv4 address.
RECURSIVE everyGlobalInet(_)
everyGlobalInet(addresses) ==
  IF addresses = <<>> THEN <<>>
  ELSE IF Head(addresses).family # "inet" \/ Head(addresses).scope # "global"
    THEN everyGlobalInet(Tail(addresses))
  ELSE <<Head(addresses).address>> \o everyGlobalInet(Tail(addresses))

\* The inner loop of HandleHeartbeat: the first global IPv4 address, if any.
RECURSIVE firstGlobalInet(_)
firstGlobalInet(addresses) ==
  IF addresses = <<>> THEN <<>>
  ELSE IF Head(addresses).family # "inet" \/ Head(addresses).scope # "global"
    THEN firstGlobalInet(Tail(addresses))
  ELSE <<Head(addresses).address>>

\* The bytes that the write loop produces for a list of addresses.
RECURSIVE Lines(_)
Lines(addresses) ==
  IF addresses = <<>> THEN <<>>
  ELSE <<Head(addresses), "\n">> \o Lines(Tail(addresses))

\* ForkdnsServersList: the lines of the servers file.
RECURSIVE ParseServers(_)
ParseServers(content) ==
  IF Len(content) < 2 THEN <<>>
  ELSE IF content[2] = "\n"
    THEN <<content[1]>> \o ParseServers(SubSeq(content, 3, Len(content)))
  ELSE ParseServers(Tail(content))

PermContent == IF fdns.perm = 0 THEN NoFile ELSE fdns.ino[fdns.perm]

\* A write of data at offset off of a file: the file grows, with a hole
\* when off lies behind its end.
WriteAt(content, off, data) ==
  [i \in 1..(IF off + Len(data) > Len(content) THEN off + Len(data) ELSE Len(content)) |->
     IF i > off /\ i <= off + Len(data) THEN data[i - off]
     ELSE IF i <= Len(content) THEN content[i]
     ELSE "hole"]

\* A file without a name and without an open handle is gone.
Reclaim(f) ==
  [f EXCEPT !.ino = [i \in Inodes |->
     IF i \in {f.perm, f.tmp} \cup {f.hb[t].file : t \in Workers} THEN f.ino[i]
     ELSE NoFile]]

FreeInodes == {i \in Inodes : fdns.ino[i] = NoFile}

HB(t) == fdns.hb[t]
SetHB(t, h) == [fdns EXCEPT !.hb[t] = h]

\* The daemon receives a heartbeat and calls HandleHeartbeat of the bridge.
HeartbeatBegin(t) ==
  /\ t \in fdns.workers /\ HB(t).pc = "idle" /\ fdns.beats < fdns.limit
  /\ \E members \in fdns.inputs : \E out \in {"ok", "address"} :
       fdns' = [fdns EXCEPT
                  !.beats = @ + 1,
                  !.hb[t] = IF out = "ok"
                              THEN [HBIdle EXCEPT !.pc = "members", !.members = members,
                                                  !.i = 1, !.before = PermContent]
                            ELSE [HBIdle EXCEPT !.pc = "hb_ret", !.members = members,
                                                !.err = out, !.before = PermContent]]
  /\ UNCHANGED notFdns

\* A loop over the members that passes over a member it cannot reach.
HeartbeatMemberSkip(t) ==
  /\ HB(t).pc = "members"
  /\ LET h == HB(t)
         next == [h EXCEPT !.i = @ + 1]
     IN IF h.i > Len(h.members)
          THEN fdns' = SetHB(t, [h EXCEPT !.pc = "compare"])
        ELSE LET node == h.members[h.i]
             IN IF node.address = LocalAddress \/ ~node.online
                  THEN fdns' = SetHB(t, next)
                ELSE \/ fdns' = SetHB(t, next)
                     \/ \E state \in NetworkStates(node.address) :
                          fdns' = SetHB(t, [next EXCEPT
                                     !.addresses = @ \o firstGlobalInet(state),
                                     !.states = Append(@, state)])
  /\ UNCHANGED notFdns

\* One round of the loop over the members.
HeartbeatMember(t) ==
  /\ HB(t).pc = "members"
  /\ LET h == HB(t)
         next == [h EXCEPT !.i = @ + 1]
     IN IF h.i > Len(h.members)
          THEN fdns' = SetHB(t, [h EXCEPT !.pc = "compare"])
        ELSE LET node == h.members[h.i]
             IN IF node.address = LocalAddress \/ ~node.online
                  THEN fdns' = SetHB(t, next)
                ELSE \/ \E err \in {"connect", "state"} :
                          fdns' = SetHB(t, [h EXCEPT !.pc = "hb_ret", !.err = err])
                     \/ \E state \in NetworkStates(node.address) :
                          fdns' = SetHB(t, [next EXCEPT
                                     !.addresses = @ \o firstGlobalInet(state),
                                     !.states = Append(@, state)])
  /\ UNCHANGED notFdns

\* The comparison with the list on disk.
HeartbeatCompare(t) ==
  /\ HB(t).pc = "compare"
  /\ LET h == HB(t)
         readErr == PermContent = NoFile
         curList == IF readErr THEN <<>> ELSE ParseServers(PermContent)
     IN fdns' = SetHB(t, IF ~readErr /\ curList = h.addresses
                           THEN [h EXCEPT !.pc = "hb_ret"]
                         ELSE [h EXCEPT !.pc = "lock"])
  /\ UNCHANGED notFdns

\* An update that does not wait for forkdnsServersLock.
ForkdnsLockFree(t) ==
  /\ HB(t).pc = "lock"
  /\ fdns' = SetHB(t, [HB(t) EXCEPT !.pc = "create", !.before = PermContent])
  /\ UNCHANGED notFdns

\* forkdnsServersLock.Lock()
ForkdnsLock(t) ==
  /\ HB(t).pc = "lock"
  /\ fdns.lock = "free"
  /\ fdns' = [fdns EXCEPT !.lock = t, !.hb[t].pc = "create",
                          !.hb[t].before = PermContent]
  /\ UNCHANGED notFdns

\* A publish that writes the addresses into the servers file itself.
ForkdnsCreateInPlace(t) ==
  /\ HB(t).pc = "create"
  /\ fdns.perm # 0 \/ FreeInodes # {}
  /\ LET file == IF fdns.perm # 0 THEN fdns.perm
                 ELSE CHOOSE i \in FreeInodes : \A k \in FreeInodes : i <= k
     IN fdns' = [fdns EXCEPT !.perm = file, !.tmp = file, !.ino[file] = <<>>,
                   !.hb[t] = [@ EXCEPT !.pc = "write", !.file = file, !.off = 0,
                                       !.j = 1, !.wrote = TRUE]]
  /\ UNCHANGED notFdns

\* os.Create(tmpName): a new empty file, or the existing one cut to nothing.
ForkdnsCreate(t) ==
  /\ HB(t).pc = "create"
  /\ \/ fdns' = SetHB(t, [HB(t) EXCEPT !.pc = "unlock", !.err = "create"])
     \/ /\ fdns.tmp # 0 \/ FreeInodes # {}
        /\ LET file == IF fdns.tmp # 0 THEN fdns.tmp
                       ELSE CHOOSE i \in FreeInodes : \A k \in FreeInodes : i <= k
           IN fdns' = [fdns EXCEPT !.tmp = file, !.ino[file] = <<>>,
                         !.hb[t] = [@ EXCEPT !.pc = "write", !.file = file, !.off = 0,
                                             !.j = 1, !.wrote = TRUE]]
  /\ UNCHANGED notFdns

\* One round of the write loop, or its end and tmpFile.Close().
ForkdnsWrite(t) ==
  /\ HB(t).pc = "write"
  /\ LET h == HB(t)
         data == <<h.addresses[h.j], "\n">>
     IN IF h.j > Len(h.addresses)
          THEN fdns' = Reclaim(SetHB(t, [h EXCEPT !.pc = "rename", !.file = 0]))
        ELSE \/ fdns' = [fdns EXCEPT
                           !.ino[h.file] = WriteAt(@, h.off, data),
                           !.hb[t] = [h EXCEPT !.off = @ + 2, !.j = @ + 1]]
             \/ \E n \in 0..1 :
                  fdns' = [fdns EXCEPT
                             !.ino[h.file] = WriteAt(@, h.off, SubSeq(data, 1, n)),
                             !.hb[t] = [h EXCEPT !.off = @ + n, !.pc = "unlock",
                                                 !.err = "write"]]
  /\ UNCHANGED notFdns

\* os.Rename(tmpName, permName)
ForkdnsRename(t) ==
  /\ HB(t).pc = "rename"
  /\ \/ fdns' = SetHB(t, [HB(t) EXCEPT !.pc = "unlock", !.err = "rename"])
     \/ /\ fdns.tmp # 0
        /\ fdns' = Reclaim([fdns EXCEPT !.perm = fdns.tmp, !.tmp = 0,
                              !.current = Lines(HB(t).addresses),
                              !.published = @ \cup {Lines(HB(t).addresses)},
                              !.hb[t].pc = "unlock", !.hb[t].renamed = TRUE])
  /\ UNCHANGED notFdns

\* The deferred tmpFile.Close() and forkdnsServersLock.Unlock().
ForkdnsUnlock(t) ==
  /\ HB(t).pc = "unlock"
  /\ fdns' = Reclaim([fdns EXCEPT !.lock = "free", !.hb[t].pc = "hb_ret",
                        !.hb[t].file = 0])
  /\ UNCHANGED notFdns

HeartbeatReturn(t) ==
  /\ HB(t).pc = "hb_ret"
  /\ fdns' = [fdns EXCEPT !.hb[t] = HBIdle, !.lastErr = HB(t).err]
  /\ UNCHANGED notFdns

\* The forkdns helper reads the servers file.
ForkdnsRead ==
  /\ fdns.seen # PermContent
  /\ fdns' = [fdns EXCEPT !.seen = PermContent]
  /\ UNCHANGED notFdns


-----------------------------------------------------------------------------
\* Network forwards (bridge.ForwardCreate, ForwardUpdate, ForwardDelete).
\*
\* A listen address is the text the request gives: the address it denotes,
\* or a text that is no address.

MaxFwdOps == 3      \* forward requests in one run, served one after the other
MaxConcFwdOps == 2  \* forward requests in one run of two workers

FwdNets == {"br0", "br1"}

ListenTexts ==
  [ip : {"2001:db8::1", "192.0.2.2", "198.51.100.7", "203.0.113.9"},
   spelling : {"canonical"}]
    \cup {[ip |-> "", spelling |-> "bad"]}

FwdTargets == {"10.1.0.2", "10.1.0.3", "bad"}

\* ParseIPToNet: the host subnet of the address that the text denotes.
ParseIPToNet(text) ==
  IF text.spelling = "bad" THEN [err |-> TRUE, subnet |-> {}]
  ELSE [err |-> FALSE, subnet |-> {text.ip}]

\* SubnetContains(outer, inner)
SubnetContains(outer, inner) == inner \subseteq outer

\* n.forwardValidate: the target address has to be an address.
forwardValidate(put) == put # "bad"

\* What bridgeNetworkExternalSubnets and bridgedNICExternalRoutes return:
\* the subnet of br1, which has NAT off, the SNAT address of br0, and the
\* external route of a NIC on br0.
Usage(subnet, network, snat, device) ==
  [subnet |-> subnet, networkName |-> network, networkSNAT |-> snat,
   instanceDevice |-> device]

NetworkUsage ==
  {Usage({"198.51.100.7", "198.51.100.8"}, "br1", FALSE, ""),
   Usage({"192.0.2.2"}, "br0", TRUE, ""),
   Usage({"203.0.113.9"}, "br0", FALSE, "eth0")}

\* getExternalSubnetInUse: the above and the listen address of every forward.
getExternalSubnetInUse(forwards) ==
  NetworkUsage
    \cup {Usage(ParseIPToNet(f.listen).subnet, f.net, FALSE, "") : f \in forwards}

\* The loop of ForwardCreate over the subnets in use.
overlaps(n, listenNet, inUse) ==
  \E u \in inUse :
    /\ ~(u.networkSNAT /\ u.networkName = n)
    /\ ~(u.networkName = n /\ u.instanceDevice = "")
    /\ SubnetContains(u.subnet, listenNet) \/ SubnetContains(listenNet, u.subnet)

NoForward == [none |-> TRUE]

\* did: the calls made after the database was changed; before: the forwards
\* of the bridge when it was changed; rb: which steps of the revert hook
\* took effect.
NoRevert == [ran |-> FALSE, db |-> FALSE, fw |-> FALSE, bgp |-> FALSE]
FwdIdle ==
  [pc |-> "idle", op |-> "", n |-> "", listen |-> NoForward, put |-> "",
   cur |-> NoForward, err |-> "", did |-> <<>>, before |-> {}, rb |-> NoRevert]

\* forwards: the records of the database; fw: the forward rules the firewall
\* holds for each bridge, <<listen address, target>>; bgp: the prefixes
\* exported for each bridge.
FwdEnv(workers, limit) ==
  [forwards |-> {}, nextID |-> 1, ops |-> 0, th |-> [t \in Workers |-> FwdIdle],
   fw |-> [n \in FwdNets |-> {}], bgp |-> [n \in FwdNets |-> {}],
   workers |-> workers, limit |-> limit]
FwdInit == FwdEnv(Workers, MaxConcFwdOps)

\* The forwards of bridge n, without their database ids.
Content(n, forwards) ==
  {[listen |-> f.listen, target |-> f.target] : f \in {g \in forwards : g.net = n}}
\* What forwardSetupFirewall hands to the firewall, what
\* forwardBGPSetupPrefixes exports.
Rules(n, forwards) == {<<f.listen.ip, f.target>> : f \in {g \in forwards : g.net = n}}
Prefixes(n, forwards) == {f.listen.ip : f \in {g \in forwards : g.net = n}}

FT(t) == fwd.th[t]
SetFT(t, h) == [fwd EXCEPT !.th[t] = h]
FwdFail(t, err) == SetFT(t, [FT(t) EXCEPT !.pc = "f_ret", !.err = err])

\* n.state.Cluster.GetNetworkForward(n.ID(), memberSpecific, listenAddress)
GetNetworkForward(n, listen) ==
  {f \in fwd.forwards : f.net = n /\ f.listen = listen}

\* A request arrives at a bridge.
ForwardBegin(t) ==
  /\ FT(t).pc = "idle" /\ t \in fwd.workers /\ fwd.ops < fwd.limit
  /\ \E op \in {"create", "update", "delete"} : \E n \in FwdNets :
     \E listen \in ListenTexts : \E put \in FwdTargets :
       fwd' = [fwd EXCEPT !.ops = @ + 1,
                 !.th[t] = [FwdIdle EXCEPT !.pc = op, !.op = op, !.n = n,
                                           !.listen = listen,
                                           !.put = IF op = "delete" THEN "" ELSE put]]
  /\ UNCHANGED notFwd

\* ForwardCreate up to the check against the subnets in use.
ForwardCreateCheck(t) ==
  /\ FT(t).pc = "create"
  /\ LET h == FT(t)
         listenAddressNet == ParseIPToNet(h.listen)
     IN IF GetNetworkForward(h.n, h.listen) # {} THEN fwd' = FwdFail(t, "conflict")
        ELSE IF listenAddressNet.err THEN fwd' = FwdFail(t, "parse")
        ELSE IF ~forwardValidate(h.put) THEN fwd' = FwdFail(t, "validate")
        ELSE \/ fwd' = FwdFail(t, "load")
             \/ fwd' = IF overlaps(h.n, listenAddressNet.subnet,
                                   getExternalSubnetInUse(fwd.forwards))
                         THEN FwdFail(t, "overlap")
                       ELSE SetFT(t, [h EXCEPT !.pc = "c_insert"])
  /\ UNCHANGED notFwd

\* n.state.Cluster.CreateNetworkForward: one record per network and listen
\* address text.
ForwardCreateInsert(t) ==
  /\ FT(t).pc = "c_insert"
  /\ LET h == FT(t)
         new == [id |-> fwd.nextID, net |-> h.n, listen |-> h.listen, target |-> h.put]
     IN \/ fwd' = FwdFail(t, "insert")
        \/ /\ GetNetworkForward(h.n, h.listen) = {}
           /\ fwd' = [fwd EXCEPT !.forwards = @ \cup {new}, !.nextID = @ + 1,
                        !.th[t] = [h EXCEPT !.pc = "c_firewall", !.cur = new,
                                            !.before = Content(h.n, fwd.forwards)]]
  /\ UNCHANGED notFwd

\* n.forwardSetupFirewall(): every forward of the bridge is read from the
\* database and handed to the firewall.
forwardSetupFirewall(n, forwards, ok) ==
  IF ok THEN [fwd.fw EXCEPT ![n] = Rules(n, forwards)] ELSE fwd.fw
\* n.forwardBGPSetupPrefixes()
forwardBGPSetupPrefixes(n, forwards, ok) ==
  IF ok THEN [fwd.bgp EXCEPT ![n] = Prefixes(n, forwards)] ELSE fwd.bgp

\* The firewall step that follows the change of the database, in
\* ForwardCreate, ForwardUpdate and ForwardDelete alike.
ForwardFirewall(t, at) ==
  /\ FT(t).pc = at
  /\ \E ok \in BOOLEAN :
       fwd' = [fwd EXCEPT
                 !.fw = forwardSetupFirewall(FT(t).n, fwd.forwards, ok),
                 !.th[t] = [FT(t) EXCEPT !.pc = IF ok THEN "f_bgp" ELSE "f_revert",
                                         !.did = Append(@, "firewall")]]
  /\ UNCHANGED notFwd

ForwardCreateApply(t) == ForwardFirewall(t, "c_firewall")

\* Variant: an error of the BGP refresh is returned without the revert hook.
ForwardBGPNoRevert(t) ==
  /\ FT(t).pc = "f_bgp"
  /\ \E o \in {"ok", "hairpin", "bgp"} :
       /\ o = "hairpin" => FT(t).op = "create"
       /\ fwd' = [fwd EXCEPT
                    !.bgp = forwardBGPSetupPrefixes(FT(t).n, fwd.forwards, o = "ok"),
                    !.th[t] = [FT(t) EXCEPT
                                 !.pc = "f_ret",
                                 !.err = IF o = "ok" THEN "" ELSE "apply",
                                 !.did = IF o = "hairpin" THEN @ ELSE Append(@, "bgp")]]
  /\ UNCHANGED notFwd

\* In ForwardCreate the hairpin mode of the NIC ports, which reads the
\* database, then in all three the refresh of the exported BGP prefixes.
ForwardBGP(t) ==
  /\ FT(t).pc = "f_bgp"
  /\ \E o \in {"ok", "hairpin", "bgp"} :
       /\ o = "hairpin" => FT(t).op = "create"
       /\ fwd' = [fwd EXCEPT
                    !.bgp = forwardBGPSetupPrefixes(FT(t).n, fwd.forwards, o = "ok"),
                    !.th[t] = [FT(t) EXCEPT
                                 !.pc = IF o = "ok" THEN "f_ret" ELSE "f_revert",
                                 !.did = IF o = "hairpin" THEN @ ELSE Append(@, "bgp")]]
  /\ UNCHANGED notFwd

\* ForwardUpdate up to the comparison of the Etags.
ForwardUpdateGet(t) ==
  /\ FT(t).pc = "update"
  /\ LET h == FT(t)
         found == GetNetworkForward(h.n, h.listen)
     IN IF found = {} THEN fwd' = FwdFail(t, "notfound")
        ELSE LET curForward == CHOOSE f \in found : TRUE
             IN IF ~forwardValidate(h.put) THEN fwd' = FwdFail(t, "validate")
                ELSE IF curForward.target = h.put
                  THEN fwd' = SetFT(t, [h EXCEPT !.pc = "f_ret", !.cur = curForward])
                ELSE fwd' = SetFT(t, [h EXCEPT !.pc = "u_write", !.cur = curForward])
  /\ UNCHANGED notFwd

\* n.state.Cluster.UpdateNetworkForward(n.ID(), id, put)
UpdateNetworkForward(forwards, id, put) ==
  {IF f.id = id THEN [f EXCEPT !.target = put] ELSE f : f \in forwards}

ForwardUpdateWrite(t) ==
  /\ FT(t).pc = "u_write"
  /\ \/ fwd' = FwdFail(t, "write")
     \/ fwd' = [fwd EXCEPT
                  !.forwards = UpdateNetworkForward(@, FT(t).cur.id, FT(t).put),
                  !.th[t] = [FT(t) EXCEPT !.pc = "u_firewall",
                                          !.before = Content(FT(t).n, fwd.forwards)]]
  /\ UNCHANGED notFwd

ForwardUpdateApply(t) == ForwardFirewall(t, "u_firewall")

\* ForwardDelete up to the removal of the record.
ForwardDeleteRecord(t) ==
  /\ FT(t).pc = "delete"
  /\ LET h == FT(t)
         found == GetNetworkForward(h.n, h.listen)
     IN IF found = {} THEN fwd' = FwdFail(t, "notfound")
        ELSE LET forward == CHOOSE f \in found : TRUE
             IN \/ fwd' = FwdFail(t, "delete")
                \/ fwd' = [fwd EXCEPT
                             !.forwards = @ \ {forward},
                             !.th[t] = [h EXCEPT !.pc = "d_firewall", !.cur = forward,
                                                 !.before = Content(h.n, fwd.forwards)]]
  /\ UNCHANGED notFwd

ForwardDeleteApply(t) == ForwardFirewall(t, "d_firewall")

\* What the database write of the revert hook leaves: the created record
\* deleted, the updated record reset, the deleted record created again (when
\* the database takes it).
Restored(h) ==
  CASE h.op = "create" -> {f \in fwd.forwards : f.id # h.cur.id}
    [] h.op = "update" -> UpdateNetworkForward(fwd.forwards, h.cur.id, h.cur.target)
    [] h.op = "delete" ->
         IF GetNetworkForward(h.n, h.listen) = {}
           THEN fwd.forwards \cup {[h.cur EXCEPT !.id = fwd.nextID]}
           ELSE fwd.forwards

\* revert.Fail(): the hook writes the database back, regenerates the
\* firewall rules and refreshes the BGP prefixes; none of the three results
\* is looked at.
ForwardRevert(t) ==
  /\ FT(t).pc = "f_revert"
  /\ LET h == FT(t) IN
     \E dbOk \in BOOLEAN, fwOk \in BOOLEAN, bgpOk \in BOOLEAN :
       LET forwards == IF dbOk THEN Restored(h) ELSE fwd.forwards IN
       fwd' = [fwd EXCEPT
                 !.forwards = forwards,
                 !.nextID = IF h.op = "delete" /\ dbOk THEN @ + 1 ELSE @,
                 !.fw = forwardSetupFirewall(h.n, forwards, fwOk),
                 !.bgp = forwardBGPSetupPrefixes(h.n, forwards, bgpOk),
                 !.th[t] = [h EXCEPT !.pc = "f_ret", !.err = "apply",
                                     !.did = Append(@, "revert"),
                                     !.rb = [ran |-> TRUE, db |-> dbOk, fw |-> fwOk,
                                             bgp |-> bgpOk]]]
  /\ UNCHANGED notFwd

ForwardReturn(t) ==
  /\ FT(t).pc = "f_ret"
  /\ fwd' = SetFT(t, FwdIdle)
  /\ UNCHANGED notFwd

-----------------------------------------------------------------------------
\* Routed NIC devices (nicRouted.validateEnvironment, nicRouted.Start).

MaxStarts == 2      \* Starts of routed NICs in one run

NicConfigs ==
  [name : {"", "eth0"}, parent : {"", "eth0"}, vlan : {"", "10"},
   ipv4 : BOOLEAN, ipv6 : BOOLEAN]

\* network.GetHostDevice(parent, vlan)
GetHostDevice(parent, vlan) ==
  IF vlan = "" THEN parent
  ELSE IF parent = "eth0" THEN "eth0.10" ELSE ".10"

NicDevices == {"all", "eth0", "eth0.10"}
AllSysctls == NicDevices \X {"ipv4/forwarding", "ipv6/forwarding", "ipv6/proxy_ndp"}
\* The hosts: every sysctl set, or one of those of "all" and eth0 not set.
SysctlEnvs ==
  {AllSysctls} \cup {AllSysctls \ {s} : s \in {"all", "eth0"} \X {"ipv4/forwarding", "ipv6/forwarding", "ipv6/proxy_ndp"}}

NicThreadIdle == [pc |-> "idle", c |-> [none |-> TRUE], statusDev |-> "", err |-> "",
                  mutated |-> FALSE]

NicEnv(features, ifs, sysctl) ==
  [features |-> features, ifaces |-> ifs, sysctl |-> sysctl, lock |-> "free",
   created |-> 0, collisions |-> 0, log |-> <<>>, starts |-> 0,
   th |-> [t \in Workers |-> NicThreadIdle]]

NicIdle == NicEnv(TRUE, {"eth0"}, AllSysctls)

NT(t) == nic.th[t]

\* util.SysctlGet of a device's key, compared with "1\n": the device has to
\* exist for the key to be readable.
SysctlIs1(dev, key) ==
  /\ dev = "all" \/ dev \in nic.ifaces
  /\ <<dev, key>> \in nic.sysctl

\* validateEnvironment: TRUE when it returns nil.
validateEnvironment(c) ==
  LET effectiveParentName == GetHostDevice(c.parent, c.vlan)
  IN /\ c.name # ""
     /\ nic.features
     /\ c.parent # "" => c.parent \in nic.ifaces
     /\ ~(c.parent = "" /\ c.vlan # "")
     /\ c.parent # "" /\ c.ipv6 =>
          SysctlIs1("all", "ipv6/forwarding") /\ SysctlIs1("all", "ipv6/proxy_ndp")
     /\ \/ c.vlan # "" /\ effectiveParentName \in nic.ifaces
        \/ /\ effectiveParentName # "" /\ c.ipv4 =>
                SysctlIs1(effectiveParentName, "ipv4/forwarding")
           /\ effectiveParentName # "" /\ c.ipv6 =>
                /\ SysctlIs1(effectiveParentName, "ipv6/forwarding")
                /\ SysctlIs1(effectiveParentName, "ipv6/proxy_ndp")

NicFail(t, err) == [nic EXCEPT !.th[t].pc = "n_ret", !.th[t].err = err]

\* An instance with a routed NIC starts.
NicStartBegin(t) ==
  /\ NT(t).pc = "idle" /\ nic.starts < MaxStarts
  /\ \E c \in NicConfigs :
       nic' = [nic EXCEPT !.starts = @ + 1,
                 !.th[t] = [NicThreadIdle EXCEPT !.pc = "n_validate", !.c = c]]
  /\ UNCHANGED notNic

NicValidate(t) ==
  /\ NT(t).pc = "n_validate"
  /\ nic' = IF validateEnvironment(NT(t).c)
              THEN [nic EXCEPT !.th[t].pc = "n_lock"]
              ELSE NicFail(t, "environment")
  /\ UNCHANGED notNic

\* Variant: Start goes on without networkCreateSharedDeviceLock.
NicLockFree(t) ==
  /\ NT(t).pc = "n_lock"
  /\ nic' = [nic EXCEPT !.th[t].pc = "n_parent"]
  /\ UNCHANGED notNic

\* networkCreateSharedDeviceLock.Lock()
NicLock(t) ==
  /\ NT(t).pc = "n_lock" /\ nic.lock = "free"
  /\ nic' = [nic EXCEPT !.lock = t, !.th[t].pc = "n_parent"]
  /\ UNCHANGED notNic

\* networkCreateVlanDeviceIfNeeded, up to the look for the device.
NicParentLook(t) ==
  /\ NT(t).pc = "n_parent"
  /\ LET c == NT(t).c
         parentName == GetHostDevice(c.parent, c.vlan)
     IN IF c.parent = "" THEN nic' = [nic EXCEPT !.th[t].pc = "n_host"]
        ELSE IF c.vlan = ""
          THEN nic' = [nic EXCEPT !.th[t].pc = "n_host", !.th[t].statusDev = "existing"]
        ELSE IF parentName \in nic.ifaces
          THEN \E st \in {"existing", "reused"} :
                 nic' = [nic EXCEPT !.th[t].pc = "n_host", !.th[t].statusDev = st,
                                    !.log = Append(@, st)]
        ELSE nic' = [nic EXCEPT !.th[t].pc = "n_create"]
  /\ UNCHANGED notNic

\* networkCreateVlanDeviceIfNeeded, the creation of the VLAN device: it
\* fails when a device of that name exists by now.
NicParentCreate(t) ==
  /\ NT(t).pc = "n_create"
  /\ LET c == NT(t).c
         parentName == GetHostDevice(c.parent, c.vlan)
     IN IF parentName \in nic.ifaces
          THEN nic' = [NicFail(t, "exists") EXCEPT !.collisions = @ + 1]
          ELSE \/ nic' = NicFail(t, "create")
               \/ nic' = [nic EXCEPT !.ifaces = @ \cup {parentName},
                            !.sysctl = @ \ ({parentName} \X {"ipv4/forwarding", "ipv6/forwarding", "ipv6/proxy_ndp"}),
                            !.created = @ + 1, !.log = Append(@, "created"),
                            !.th[t] = [NT(t) EXCEPT !.pc = "n_sysctl", !.statusDev = "created",
                                                    !.mutated = TRUE]]
  /\ UNCHANGED notNic

\* setupParentSysctls(parentName)
NicParentSysctls(t) ==
  /\ NT(t).pc = "n_sysctl"
  /\ LET c == NT(t).c
         parentName == GetHostDevice(c.parent, c.vlan)
         keys == (IF c.ipv4 THEN {"ipv4/forwarding"} ELSE {})
                   \cup (IF c.ipv6 THEN {"ipv6/forwarding", "ipv6/proxy_ndp"} ELSE {})
     IN \/ keys # {} /\ nic' = NicFail(t, "sysctl")
        \/ nic' = [nic EXCEPT !.sysctl = @ \cup ({parentName} \X keys),
                              !.th[t].pc = "n_host"]
  /\ UNCHANGED notNic

\* The host side of the NIC: the veth pair, its limits, sysctls, filter,
\* addresses and routes; on an error the revert removes the veth pair.
NicHostSide(t) ==
  /\ NT(t).pc = "n_host"
  /\ \E err \in {"", "host"} :
       nic' = [nic EXCEPT !.th[t].pc = "n_ret", !.th[t].err = err,
                          !.th[t].mutated = TRUE]
  /\ UNCHANGED notNic

\* Start returns; the deferred Unlock runs when the lock was taken.
NicReturn(t) ==
  /\ NT(t).pc = "n_ret"
  /\ nic' = [nic EXCEPT !.lock = IF @ = t THEN "free" ELSE @,
                        !.th[t] = NicThreadIdle]
  /\ UNCHANGED notNic

-----------------------------------------------------------------------------
\* Functions of the configuration, evaluated on their own.

CalcIdle == [fn |-> "none"]
DevIdle == [kind |-> "none"]

\* bridge.Validate.  A key is the sequence of its dot-separated fields, a
\* config the set of its <<key, value>> entries.

MaxEntries == 2     \* entries of a config besides bridge.mode

NetNames == {"br0", "lxdbridge0123"}
TunnelNames == {"t1", "averylongname"}
Length(name) ==
  CASE name = "br0" -> 3 [] name = "lxdbridge0123" -> 13
    [] name = "t1" -> 2 [] name = "averylongname" -> 13

TunnelFields ==
  {"protocol", "local", "remote", "group", "interface", "port", "id", "ttl", "bogus"}

ValidateEntries ==
  ({<<"ipv4", "nat">>, <<"ipv4", "firewall">>, <<"ipv4", "dhcp">>, <<"ipv6", "nat">>}
      \X {"", "true", "maybe"})
    \cup ({<<"ipv4", "nat", "order">>} \X {"", "before", "sideways"})
    \cup ({<<"ipv4", "dhcp", "expiry">>, <<"ipv6", "dhcp", "expiry">>} \X {"", "1h"})
    \cup ({<<"ipv4", "address">>} \X {"", "none", "10.0.0.1/24", "fd42::1/64"})
    \cup ({<<"ipv6", "address">>} \X {"", "fd42::1/64"})
    \cup ({<<"fan", "type">>} \X {"", "vxlan"})
    \cup ({<<"dns", "domain">>, <<"foo", "bar">>, <<"ipv4", "bogus">>} \X {"", "lxd"})
    \cup ({<<"tunnel", "t1">>, <<"tunnel", "t1", "id", "x">>} \X {"", "1"})
    \cup {<<<<"tunnel", name, "protocol">>, v>> :
            name \in TunnelNames, v \in {"", "gre", "geneve"}}
    \cup {<<<<"tunnel", "t1", f>>, v>> :
            f \in {"local", "remote", "group"}, v \in {"10.0.0.1", "maybe"}}
    \cup ({<<"tunnel", "t1", "interface">>} \X {"eth1", "not/a/name"})
    \cup ({<<"tunnel", "t1", "port">>} \X {"", "4789", "70000"})
    \cup ({<<"tunnel", "t1", "id">>} \X {"", "1", "maybe"})
    \cup ({<<"tunnel", "t1", "ttl">>} \X {"", "1", "300"})
    \cup ({<<"tunnel", "t1", "bogus">>} \X {"", "1"})

ModeEntries == {<<"bridge", "mode">>} \X {"", "standard", "fan", "bad"}

EntrySets(n) ==
  {S \in UNION {{{}}, {{e} : e \in ValidateEntries},
                {{e, f} : e, f \in ValidateEntries},
                {{e, f, g} : e, f, g \in IF n > 2 THEN ValidateEntries ELSE {}}} :
     /\ Cardinality(S) <= n
     /\ \A e, f \in S : e[1] = f[1] => e = f}

NetConfigs(n) == {{m} \cup S : m \in ModeEntries, S \in EntrySets(n)}

\* config[key]; "" when the key is not in the map.
ValueOf(config, key) ==
  IF \E e \in config : e[1] = key
    THEN (CHOOSE e \in config : e[1] = key)[2]
    ELSE ""

\* strings.HasPrefix(key, prefix + ".")
HasPrefix(key, prefix) == Len(key) >= 2 /\ key[1] = prefix

\* The validators of the validate package, on the values above.
IsBool(v) == v \in {"true", "false"}
IsNetworkAddress(v) == v \in {"10.0.0.1", "fd42::1"}
IsNetworkAddressCIDRV4(v) == v = "10.0.0.1/24"
IsNetworkAddressCIDRV6(v) == v = "fd42::1/64"
IsInt64(v) == v \in {"1", "300", "4789", "70000"}
IsUint8(v) == v = "1"
IsInterfaceName(v) == v = "eth1"
networkValidPort(v) == v \in {"", "1", "300", "4789"}
Optional(ok, v) == v = "" \/ ok

\* The static rules of Validate: TRUE for a key without a rule.
HasStaticRule(key) ==
  key \in {<<"bridge", "mode">>, <<"ipv4", "nat">>, <<"ipv4", "firewall">>,
           <<"ipv4", "dhcp">>, <<"ipv6", "nat">>, <<"ipv4", "nat", "order">>,
           <<"ipv4", "dhcp", "expiry">>, <<"ipv6", "dhcp", "expiry">>,
           <<"ipv4", "address">>, <<"ipv6", "address">>, <<"fan", "type">>,
           <<"dns", "domain">>}

StaticRule(key, v) ==
  CASE key = <<"bridge", "mode">> -> Optional(v \in {"standard", "fan"}, v)
    [] key \in {<<"ipv4", "nat">>, <<"ipv4", "firewall">>, <<"ipv4", "dhcp">>,
                <<"ipv6", "nat">>} -> Optional(IsBool(v), v)
    [] key = <<"ipv4", "nat", "order">> -> Optional(v \in {"before", "after"}, v)
    [] key = <<"ipv4", "address">> ->
         Optional(v \in {"none", "auto"} \/ IsNetworkAddressCIDRV4(v), v)
    [] key = <<"ipv6", "address">> ->
         Optional(v \in {"none", "auto"} \/ IsNetworkAddressCIDRV6(v), v)
    [] key = <<"fan", "type">> -> Optional(v \in {"vxlan", "ipip"}, v)
    [] OTHER -> TRUE

\* The switch over the last field of a tunnel key: the fields that get a rule.
HasTunnelRule(key) ==
  /\ HasPrefix(key, "tunnel") /\ Len(key) = 3
  /\ key[3] \in {"protocol", "local", "remote", "port", "group", "id", "inteface", "ttl"}

TunnelRule(key, v) ==
  CASE key[3] = "protocol" -> Optional(v \in {"gre", "vxlan"}, v)
    [] key[3] \in {"local", "remote", "group"} -> Optional(IsNetworkAddress(v), v)
    [] key[3] = "port" -> networkValidPort(v)
    [] key[3] = "id" -> Optional(IsInt64(v), v)
    [] key[3] = "inteface" -> IsInterfaceName(v)
    [] key[3] = "ttl" -> Optional(IsUint8(v), v)

\* The loop that adds the dynamic rules: the errors it may return.
TunnelKeyErrors(name, config) ==
  {"key" : e \in {e \in config : HasPrefix(e[1], "tunnel") /\ Len(e[1]) # 3}}
    \cup {"long" : e \in {e \in config : /\ HasPrefix(e[1], "tunnel") /\ Len(e[1]) = 3
                                        /\ Length(name) + Length(e[1][2]) > 14}}

\* n.validate(config, rules): every value passes its rule, and every key
\* has one.
RuleErrors(config) ==
  {"value" : e \in {e \in config :
                      \/ HasStaticRule(e[1]) /\ ~StaticRule(e[1], e[2])
                      \/ HasTunnelRule(e[1]) /\ ~TunnelRule(e[1], e[2])}}
    \cup {"unknown" : e \in {e \in config :
                               ~HasStaticRule(e[1]) /\ ~HasTunnelRule(e[1])}}

\* Variant: ipv4.dhcp is among the keys fan mode leaves alone.
FanExceptionsWithDHCP ==
  {<<"ipv4", "dhcp", "expiry">>, <<"ipv4", "firewall">>, <<"ipv4", "nat">>,
   <<"ipv4", "nat", "order">>, <<"ipv4", "dhcp">>}

FanExceptions ==
  {<<"ipv4", "dhcp", "expiry">>, <<"ipv4", "firewall">>, <<"ipv4", "nat">>,
   <<"ipv4", "nat", "order">>}

\* The composite checks of the bridge mode.
ModeErrors(name, config) ==
  LET bridgeMode == ValueOf(config, <<"bridge", "mode">>)
  IN IF bridgeMode = "fan" /\ Length(name) > 11 THEN {"fanname"}
     ELSE {"fanipv4" : e \in {e \in config :
                               /\ bridgeMode = "fan" /\ HasPrefix(e[1], "ipv4")
                               /\ e[1] \notin FanExceptions /\ e[2] # ""}}
       \cup {"fanipv6" : e \in {e \in config :
                               bridgeMode = "fan" /\ HasPrefix(e[1], "ipv6") /\ e[2] # ""}}
       \cup {"fan" : e \in {e \in config :
                               bridgeMode # "fan" /\ HasPrefix(e[1], "fan") /\ e[2] # ""}}

\* The errors Validate may return; none when it accepts.
ValidateErrors(name, config) ==
  IF TunnelKeyErrors(name, config) # {} THEN TunnelKeyErrors(name, config)
  ELSE IF RuleErrors(config) # {} THEN RuleErrors(config)
  ELSE ModeErrors(name, config)

ValidateCall ==
  /\ calc.fn = "Validate" /\ ~calc.done
  /\ LET errs == ValidateErrors(calc.name, calc.config)
     IN \E err \in IF errs = {} THEN {""} ELSE errs :
          calc' = [calc EXCEPT !.done = TRUE, !.err = err]
  /\ UNCHANGED notCalc

\* bridge.fanAddress and bridge.addressForSubnet.  An address is the
\* sequence of its four bytes, a subnet an address and the size of its mask.

MaxIfaces == 2      \* interfaces of the host

UnderlaySubnets ==
  [ip : {<<10, 1, 0, 0>>, <<10, 1, 2, 0>>}, size : {8, 16, 20, 24}]
OverlaySubnets ==
  [ip : {<<240, 0, 0, 0>>, <<250, 7, 0, 0>>, <<10, 255, 0, 0>>}, size : {8, 12, 16, 24}]
HostAddrs == {<<10, 1, 2, 7>>, <<10, 1, 0, 240>>, <<10, 2, 2, 255>>, <<192, 168, 0, 1>>}
HostIfaces == [name : {"lo", "eth0"}, addr : HostAddrs]
HostIfaceLists == UNION {[1..n -> HostIfaces] : n \in 0..MaxIfaces}

\* The two halves of an address as numbers.
Hi(ip) == ip[1] * 256 + ip[2]
Lo(ip) == ip[3] * 256 + ip[4]

RECURSIVE Pow2(_)
Pow2(n) == IF n = 0 THEN 1 ELSE 2 * Pow2(n - 1)

\* subnet.Contains(ip)
Contains(subnet, ip) ==
  IF subnet.size <= 16
    THEN Hi(ip) \div Pow2(16 - subnet.size) = Hi(subnet.ip) \div Pow2(16 - subnet.size)
    ELSE /\ Hi(ip) = Hi(subnet.ip)
         /\ Lo(ip) \div Pow2(32 - subnet.size) = Lo(subnet.ip) \div Pow2(32 - subnet.size)

NoAddress == [err |-> "No address found in subnet"]

\* addressForSubnet: the first address in the subnet, of the interfaces
\* other than lo in the order of the host.
RECURSIVE addressForSubnet(_, _)
addressForSubnet(ifs, subnet) ==
  IF ifs = <<>> THEN NoAddress
  ELSE IF Head(ifs).name # "lo" /\ Contains(subnet, Head(ifs).addr)
    THEN [ip |-> Head(ifs).addr, dev |-> Head(ifs).name]
  ELSE addressForSubnet(Tail(ifs), subnet)

\* Variant: with a /16 underlay the third byte is set before the second.
fanBytesThirdFirst(ipBytes, overlay, underlaySize) ==
  LET b1 == [ipBytes EXCEPT ![1] = overlay.ip[1]]
      b2 == IF overlay.size = 16
              THEN [[b1 EXCEPT ![2] = overlay.ip[2]] EXCEPT ![3] = b1[4]]
            ELSE IF underlaySize = 24
              THEN [[b1 EXCEPT ![2] = b1[4]] EXCEPT ![3] = 0]
            ELSE IF underlaySize = 16
              THEN [[b1 EXCEPT ![3] = b1[4]] EXCEPT ![2] = b1[4]]
            ELSE b1
  IN [b2 EXCEPT ![4] = 1]

\* The assignments to ipBytes, in their order.
fanBytes(ipBytes, overlay, underlaySize) ==
  LET b1 == [ipBytes EXCEPT ![1] = overlay.ip[1]]
      b2 == IF overlay.size = 16
              THEN [[b1 EXCEPT ![2] = overlay.ip[2]] EXCEPT ![3] = b1[4]]
            ELSE IF underlaySize = 24
              THEN [[b1 EXCEPT ![2] = b1[4]] EXCEPT ![3] = 0]
            ELSE IF underlaySize = 16
              THEN [[b1 EXCEPT ![2] = b1[3]] EXCEPT ![3] = b1[4]]
            ELSE b1
  IN [b2 EXCEPT ![4] = 1]

fanAddress(ifs, underlay, overlay) ==
  IF underlay.size # 16 /\ underlay.size # 24
    THEN [err |-> "Only /16 or /24 underlays are supported at this time"]
  ELSE IF overlay.size # 8 /\ overlay.size # 16
    THEN [err |-> "Only /8 or /16 overlays are supported at this time"]
  ELSE IF overlay.size + (32 - underlay.size) + 8 > 32
    THEN [err |-> "Underlay or overlay networks too large to accommodate the FAN"]
  ELSE LET found == addressForSubnet(ifs, underlay)
       IN IF found = NoAddress THEN NoAddress
          ELSE [err |-> "", ip |-> fanBytes(found.ip, overlay, underlay.size),
                size |-> overlay.size, dev |-> found.dev, ipStr |-> found.ip]

FanAddressCall ==
  /\ calc.fn = "fanAddress" /\ ~calc.done
  /\ calc' = [calc EXCEPT !.done = TRUE,
                !.out = fanAddress(calc.ifaces, calc.underlay, calc.overlay)]
  /\ UNCHANGED notCalc

\* The loop of bridge.setup over bridge.external_interfaces.  The config value
\* is a comma-separated list; every entry is trimmed, looked up on the host,
\* refused when one of its addresses is global unicast, and attached.

MaxExternal == 2    \* entries of bridge.external_interfaces

\* Entries as written in the config, and the interface each names once the
\* white space around it is trimmed.
EntryTexts == {"eth1", " eth2"}
TrimSpace(text) == IF text = " eth2" THEN "eth2" ELSE text
ExternalNames == {TrimSpace(e) : e \in EntryTexts}
ExternalLists == UNION {[1..n -> EntryTexts] : n \in 1..MaxExternal}

\* What the host has under a name: no interface, an interface without
\* addresses, one with a link-local address only, one with a global unicast
\* address.
HostKinds == {"missing", "unused", "linklocal", "global"}
IfaceAddrs(kind) ==
  CASE kind = "linklocal" -> {"fe80::1/64"}
    [] kind = "global" -> {"fe80::1/64", "192.0.2.7/24"}
    [] OTHER -> {}
IsGlobalUnicast(a) == a = "192.0.2.7/24"

NoAttach == [attached |-> <<>>, skipped |-> {}, err |-> ""]

\* One turn of the loop for the interface name, r being the result so far.
\* addrsErr holds the interfaces whose iface.Addrs() fails, attachErr the one
\* whose AttachInterface fails.
attachOne(host, addrsErr, attachErr, name, r) ==
  IF host[name] = "missing"
    THEN [r EXCEPT !.skipped = @ \cup {name}]
    ELSE LET unused == \/ name \in addrsErr
                       \/ \A a \in IfaceAddrs(host[name]) : ~IsGlobalUnicast(a)
         IN IF ~unused THEN [r EXCEPT !.err = "configured"]
            ELSE IF name = attachErr THEN [r EXCEPT !.err = "attach"]
            ELSE [r EXCEPT !.attached = Append(@, name)]

RECURSIVE attachExternal(_, _, _, _, _, _)
attachExternal(entries, host, addrsErr, attachErr, i, r) ==
  IF i > Len(entries) \/ r.err # "" THEN r
  ELSE attachExternal(entries, host, addrsErr, attachErr, i + 1,
                      attachOne(host, addrsErr, attachErr, TrimSpace(entries[i]), r))

AttachExternalCall ==
  /\ calc.fn = "attachExternal" /\ ~calc.done
  /\ calc' = [calc EXCEPT !.done = TRUE,
                !.out = attachExternal(calc.entries, calc.host, calc.addrsErr,
                                       calc.attachErr, 1, NoAttach)]
  /\ UNCHANGED notCalc

-----------------------------------------------------------------------------
SetupSteps(t) ==
  \/ SetupDir(t) \/ SetupBridge(t) \/ SetupCleanTunnels(t) \/ SetupMTU(t)
  \/ SetupLink(t) \/ SetupExternal(t) \/ SetupFwClear(t) \/ SetupFlush4(t)
  \/ SetupIPv4(t) \/ SetupFlush6(t) \/ SetupIPv6(t) \/ SetupFan(t)
  \/ SetupTunnels(t) \/ SetupAppArmor(t) \/ SetupKillHelpers(t) \/ SetupDnsmasq(t)
  \/ SetupForkDNS(t) \/ SetupFirewall(t) \/ SetupFinish(t) \/ SetupRevert(t)
StopSteps(t) ==
  \/ StopCheck(t) \/ StopBridge(t) \/ StopFirewall(t) \/ StopKillHelpers(t)
  \/ StopTunnels(t) \/ StopAppArmor(t)

InitCommon ==
  /\ ifaces = {} /\ bridgeKind = "none" /\ ports = {} /\ addrs = {}
  /\ routes = NoRoutes /\ fwRules = {} /\ apparmor = FALSE
  /\ dnsmasq = NoHelper /\ forkdns = NoHelper
  /\ th = [t \in Workers |-> IdleThread]
  /\ snap = NoSnap /\ prevSnap = NoSnap

\* One worker serves the requests one after the other; no network exists yet.
Init ==
  /\ InitCommon
  /\ dns = DNSIdle(FALSE) /\ fdns = FdnsInit /\ fwd = FwdInit /\ nic = NicIdle /\ calc = CalcIdle /\ devs = DevIdle
  /\ net = NoNet /\ db = NoNet /\ status = "pending"
  /\ \E cl \in BOOLEAN : env = [faults |-> FALSE, workers |-> {"w1"}, clustered |-> cl,
                              ops |-> 0, faulty |-> 0, limit |-> MaxOps,
                              puts |-> NetworkPuts]

Next ==
  \/ \E t \in Workers :
       \/ Create(t) \/ CreateReturn(t) \/ NetworkCreated(t)
       \/ StartBegin(t) \/ SetupSteps(t) \/ StartReturn(t)
       \/ StopBegin(t) \/ StopSteps(t) \/ StopReturn(t)
       \/ UpdateBegin(t) \/ UpdateSteps(t) \/ UpdateReturn(t)
       \/ DeleteBegin(t) \/ DeleteSteps(t) \/ DeleteReturn(t)
  \/ ForeignLinkAdd \/ ForeignLinkDel

Spec == Init /\ [][Next]_vars

\* Starts of a created network, of every config, while other mechanisms add
\* boot routes to the bridge.
InitBoot ==
  /\ InitCommon
  /\ dns = DNSIdle(FALSE) /\ fdns = FdnsInit /\ fwd = FwdInit /\ nic = NicIdle /\ calc = CalcIdle /\ devs = DevIdle
  /\ \E c \in Configs : net = [config |-> c, description |-> "d0"]
  /\ db = net /\ status = "created"
  /\ \E cl \in BOOLEAN : env = [faults |-> FALSE, workers |-> {"w1"}, clustered |-> cl,
                              ops |-> 0, faulty |-> 0, limit |-> MaxBootOps, puts |-> {}]

NextBoot ==
  \/ \E t \in Workers : StartBegin(t) \/ SetupSteps(t) \/ StartReturn(t)
  \/ \E fam \in {4, 6} : ForeignBootRouteAdd(fam)

SpecBoot == InitBoot /\ [][NextBoot]_vars

MaxLiveStarts == 2     \* Starts in one run with fair scheduling

\* Starts of a created network, of every config.  The goroutine that serves a
\* request is scheduled until the request is answered, and every command that
\* setup runs returns.
InitLive ==
  /\ InitCommon
  /\ dns = DNSIdle(FALSE) /\ fdns = FdnsInit /\ fwd = FwdInit /\ nic = NicIdle /\ calc = CalcIdle /\ devs = DevIdle
  /\ \E c \in Configs : net = [config |-> c, description |-> "d0"]
  /\ db = net /\ status = "created"
  /\ \E cl \in BOOLEAN : env = [faults |-> FALSE, workers |-> {"w1"}, clustered |-> cl,
                              ops |-> 0, faulty |-> 0, limit |-> MaxLiveStarts, puts |-> {}]

NextLive == \E t \in Workers : StartBegin(t) \/ SetupSteps(t) \/ StartReturn(t)

SpecLive ==
  /\ InitLive /\ [][NextLive]_vars
  /\ \A t \in Workers : WF_vars(SetupSteps(t) \/ StartReturn(t))

MaxRetryOps == 3     \* Starts and Stops of a created network in one run

\* Starts and Stops of a created network, of every config, served one after
\* the other.
InitRetry ==
  /\ InitCommon
  /\ dns = DNSIdle(FALSE) /\ fdns = FdnsInit /\ fwd = FwdInit /\ nic = NicIdle /\ calc = CalcIdle /\ devs = DevIdle
  /\ \E c \in Configs : net = [config |-> c, description |-> "d0"]
  /\ db = net /\ status = "created"
  /\ \E cl \in BOOLEAN : env = [faults |-> FALSE, workers |-> {"w1"}, clustered |-> cl,
                              ops |-> 0, faulty |-> 0, limit |-> MaxRetryOps, puts |-> {}]

NextRetry ==
  \E t \in Workers :
    \/ StartBegin(t) \/ SetupSteps(t) \/ StartReturn(t)
    \/ StopBegin(t) \/ StopSteps(t) \/ StopReturn(t)

SpecRetry == InitRetry /\ [][NextRetry]_vars

ConcConfigs == {CfgDual, CfgOVS}

\* Requests arrive at two workers at once; none of their steps fails by itself.
InitConc ==
  /\ InitCommon
  /\ dns = DNSIdle(FALSE) /\ fdns = FdnsInit /\ fwd = FwdInit /\ nic = NicIdle /\ calc = CalcIdle /\ devs = DevIdle
  /\ \E c \in ConcConfigs : net = [config |-> c, description |-> "d0"]
  /\ db = net
  /\ status \in {"pending", "created"}
  /\ env = [faults |-> FALSE, workers |-> Workers, clustered |-> FALSE,
            ops |-> 0, faulty |-> MaxFaulty, limit |-> MaxConcOps,
            puts |-> {[config |-> CfgOVS, description |-> "d0"]}]

NextConc ==
  \E t \in Workers :
    \/ StartBegin(t) \/ SetupSteps(t) \/ StartReturn(t)
    \/ StopBegin(t) \/ StopSteps(t) \/ StopReturn(t)
    \/ UpdateBegin(t) \/ UpdateSteps(t) \/ UpdateReturn(t)

SpecConc == InitConc /\ [][NextConc]_vars

\* The bridge at rest, while the other services run.
InitBridgeIdle ==
  /\ InitCommon
  /\ net = NoNet /\ db = NoNet /\ status = "pending"
  /\ env = [faults |-> FALSE, workers |-> {}, clustered |-> TRUE, ops |-> 0,
            faulty |-> 0, limit |-> 0, puts |-> {}]

\* The zone-transfer server, with or without a zone retriever, serving one
\* request after the other.
InitDNS ==
  /\ InitBridgeIdle
  /\ \E ready \in BOOLEAN : dns = DNSIdle(ready)
  /\ fdns = FdnsInit /\ fwd = FwdInit /\ nic = NicIdle /\ calc = CalcIdle /\ devs = DevIdle

NextDNS ==
  \/ Receive \/ CheckReady \/ CheckQuestion \/ CheckType \/ ParseRemote
  \/ LoadZone \/ CheckAccess \/ Answer \/ Served

SpecDNS == InitDNS /\ [][NextDNS]_vars

\* The servers file as a daemon finds it: missing, or left by an earlier run.
InitServersFile(workers, inputs, limit) ==
  LET none == [FdnsInit EXCEPT !.workers = workers, !.inputs = inputs,
                               !.limit = limit]
      old == Lines(<<"10.0.0.2">>)
  IN \/ fdns = none
     \/ fdns = [none EXCEPT !.ino[1] = old, !.perm = 1, !.current = old,
                            !.published = {old}, !.seen = old]

NextForkDNS ==
  \/ \E t \in Workers :
       \/ HeartbeatBegin(t) \/ HeartbeatMember(t) \/ HeartbeatCompare(t)
       \/ ForkdnsLock(t) \/ ForkdnsCreate(t) \/ ForkdnsWrite(t)
       \/ ForkdnsRename(t) \/ ForkdnsUnlock(t) \/ HeartbeatReturn(t)
  \/ ForkdnsRead

\* Heartbeats handled one after the other.
InitBeat ==
  /\ InitBridgeIdle /\ dns = DNSIdle(FALSE) /\ fwd = FwdInit /\ nic = NicIdle /\ calc = CalcIdle /\ devs = DevIdle
  /\ InitServersFile({"w1"}, MemberLists, MaxBeats)

SpecBeat == InitBeat /\ [][NextForkDNS]_vars

\* Two heartbeats handled at the same time.
ConcMemberLists == {l \in MemberLists : \A i \in DOMAIN l : l[i].online}

InitForkDNS ==
  /\ InitBridgeIdle /\ dns = DNSIdle(FALSE) /\ fwd = FwdInit /\ nic = NicIdle /\ calc = CalcIdle /\ devs = DevIdle
  /\ InitServersFile(Workers, ConcMemberLists, MaxConcBeats)

SpecForkDNS == InitForkDNS /\ [][NextForkDNS]_vars

\* Requests on the forwards of two bridges, two at a time.
InitForward ==
  /\ InitBridgeIdle /\ dns = DNSIdle(FALSE) /\ fdns = FdnsInit
  /\ fwd = FwdInit /\ nic = NicIdle /\ calc = CalcIdle /\ devs = DevIdle

NextForward ==
  \E t \in Workers :
    \/ ForwardBegin(t) \/ ForwardCreateCheck(t) \/ ForwardCreateInsert(t)
    \/ ForwardCreateApply(t) \/ ForwardUpdateGet(t) \/ ForwardUpdateWrite(t)
    \/ ForwardUpdateApply(t) \/ ForwardDeleteRecord(t) \/ ForwardDeleteApply(t)
    \/ ForwardBGP(t) \/ ForwardRevert(t) \/ ForwardReturn(t)

SpecForward == InitForward /\ [][NextForward]_vars

\* Forward requests served by one worker, one after the other.
InitForwardSeq ==
  /\ InitBridgeIdle /\ dns = DNSIdle(FALSE) /\ fdns = FdnsInit
  /\ fwd = FwdEnv({"w1"}, MaxFwdOps) /\ nic = NicIdle /\ calc = CalcIdle /\ devs = DevIdle

SpecForwardSeq == InitForwardSeq /\ [][NextForward]_vars

\* Starts of routed NICs, two at a time, on every host.
InitNic ==
  /\ InitBridgeIdle /\ dns = DNSIdle(FALSE) /\ fdns = FdnsInit
  /\ fwd = FwdInit /\ calc = CalcIdle /\ devs = DevIdle
  /\ \E features \in BOOLEAN : \E ifs \in SUBSET {"eth0", "eth0.10"} :
     \E sysctl \in SysctlEnvs :
       nic = NicEnv(features, ifs, sysctl)

NextNic ==
  \E t \in Workers :
    \/ NicStartBegin(t) \/ NicValidate(t) \/ NicLock(t) \/ NicParentLook(t)
    \/ NicParentCreate(t) \/ NicParentSysctls(t) \/ NicHostSide(t) \/ NicReturn(t)

SpecNic == InitNic /\ [][NextNic]_vars

\* Validate on every config of at most MaxEntries entries and a mode.
InitValidate ==
  /\ InitBridgeIdle /\ dns = DNSIdle(FALSE) /\ fdns = FdnsInit
  /\ fwd = FwdInit /\ nic = NicIdle /\ devs = DevIdle
  /\ \E name \in NetNames : \E config \in NetConfigs(MaxEntries) :
       calc = [fn |-> "Validate", name |-> name, config |-> config,
               done |-> FALSE, err |-> ""]

SpecValidate == InitValidate /\ [][ValidateCall]_vars

\* fanAddress on every pair of subnets and every host.
InitFanAddress ==
  /\ InitBridgeIdle /\ dns = DNSIdle(FALSE) /\ fdns = FdnsInit
  /\ fwd = FwdInit /\ nic = NicIdle /\ devs = DevIdle
  /\ \E underlay \in UnderlaySubnets : \E overlay \in OverlaySubnets :
     \E ifs \in HostIfaceLists :
       calc = [fn |-> "fanAddress", underlay |-> underlay, overlay |-> overlay,
               ifaces |-> ifs, done |-> FALSE, out |-> [err |-> ""]]

SpecFanAddress == InitFanAddress /\ [][FanAddressCall]_vars

\* The external-interface loop on every list, every host and every failure of
\* the address listing or of the attachment.
InitExternal ==
  /\ InitBridgeIdle /\ dns = DNSIdle(FALSE) /\ fdns = FdnsInit
  /\ fwd = FwdInit /\ nic = NicIdle /\ devs = DevIdle
  /\ \E entries \in ExternalLists : \E host \in [ExternalNames -> HostKinds] :
     \E addrsErr \in SUBSET ExternalNames : \E attachErr \in ExternalNames \cup {""} :
       /\ \A n \in addrsErr : host[n] # "missing"
       /\ calc = [fn |-> "attachExternal", entries |-> entries, host |-> host,
                  addrsErr |-> addrsErr, attachErr |-> attachErr,
                  done |-> FALSE, out |-> NoAttach]

SpecExternal == InitExternal /\ [][AttachExternalCall]_vars

-----------------------------------------------------------------------------
\* Properties.

Reverse(q) == [i \in 1..Len(q) |-> q[Len(q) + 1 - i]]
Last(q) == q[Len(q)]
TwoStarts == snap # NoSnap /\ prevSnap # NoSnap
NoDuplicateRoutes(obs) == \A r \in AllRoutes : obs.routes[r] <= 1

SetupReturnedError(t) ==
  th[t].pc \in {"start_ret", "u_setup_ret", "u_rolled"} /\ th[t].err

\* C2: when setup returns an error, every device this invocation created
\* (bridge, MTU placeholder, fan tunnel, named tunnel) is gone again, removed
\* in the reverse of the order of creation.
C2_AllCreatedRemoved ==
  \A t \in Workers :
    SetupReturnedError(t) =>
      /\ \A i \in 1..Len(th[t].made) : th[t].made[i] \notin ifaces
      /\ th[t].undone = Reverse(th[t].made)

driverOf(c) == IF IsOVS(c) THEN "openvswitch" ELSE "native"
\* The bridge carries what config c asks for.
ConfiguredFrom(c) ==
  /\ isRunning /\ bridgeKind = driverOf(c)
  /\ IPv4Enabled(c) => <<4, c["ipv4.address"]>> \in addrs
  /\ IPv6Enabled(c) => <<6, c["ipv6.address"]>> \in addrs
  /\ \A a \in addrs : a \in {<<4, c["ipv4.address"]>>, <<6, c["ipv6.address"]>>}
                      \/ (IsFan(c) /\ a = <<4, AddrFan>>)
  /\ c["bridge.external_interfaces"] # "" => c["bridge.external_interfaces"] \in ports

UpdateFailed(t) ==
  /\ th[t].pc = "update_ret" /\ th[t].err
  /\ th[t].ufail \in {"stop", "detach", "persist", "setup"}
  /\ status # "pending"

\* C3, amended: when a step of Update fails after the change detection and a
\* config key changed, the rollback runs: the network object holds the old
\* config again and setup is re-run from it; the persisted record is the old
\* one when the rollback's write succeeds, and the bridge is configured from
\* the old config when the rollback's setup succeeds.  When only the
\* description changed, nothing was written and nothing is re-run.
C3_RollbackRuns ==
  \A t \in Workers :
    UpdateFailed(t) =>
      IF th[t].armed
        THEN /\ net = th[t].oldNet
             /\ Last(th[t].calls) = "setup"
             /\ th[t].rbPersist = "ok" => db = th[t].oldNet
             /\ ~th[t].rbSetupErr => ConfiguredFrom(th[t].oldNet.config)
        ELSE /\ db = th[t].before.db
             /\ SysState = th[t].before.sys
             /\ th[t].calls = <<>>

C3_Witness ==
  \E t \in Workers :
    /\ UpdateFailed(t) /\ th[t].armed /\ th[t].ufail = "setup"
    /\ th[t].rbPersist = "ok" /\ ~th[t].rbSetupErr
    /\ db = th[t].oldNet /\ db # th[t].newNet

\* C3 as stated: whenever a step of Update fails after the change detection,
\* the persisted config is the old one again and (a config key having changed)
\* setup has been re-run so that the bridge is configured from the old config.
C3_AsClaimed ==
  \A t \in Workers :
    UpdateFailed(t) =>
      /\ db = th[t].before.db
      /\ th[t].armed => /\ Last(th[t].calls) = "setup"
                        /\ ConfiguredFrom(th[t].before.db.config)

\* C4: no two lifecycle operations on the bridge are in progress at once.
C4_Exclusive ==
  Cardinality({t \in Workers : th[t].pc # "idle"}) <= 1

StopSucceeded(t) == th[t].pc = "stop_ret" /\ ~th[t].err /\ th[t].wasRunning

C6_StopNoop ==
  \A t \in Workers :
    (th[t].pc = "stop_ret" /\ ~th[t].wasRunning) =>
      /\ ~th[t].err
      /\ th[t].failedAt = ""
      /\ SysState = th[t].before.sys
      /\ db = th[t].before.db

C6_Witness ==
  \E t \in Workers :
    /\ th[t].pc = "stop_ret" /\ ~th[t].wasRunning /\ ~th[t].err
    /\ apparmor /\ fwRules # {} /\ dnsmasq.running = 1

\* C7: Create fails exactly when an interface of the bridge's name exists, and
\* in either case touches no kernel object, helper, firewall rule or profile.
C7_CreateOnlyChecks ==
  \A t \in Workers :
    th[t].pc = "create_ret" =>
      /\ th[t].err <=> Bridge \in th[t].before.sys[1]
      /\ SysState = th[t].before.sys
      /\ ~th[t].err => db # NoNet /\ Bridge \notin ifaces

C7_Witness ==
  \E t \in Workers :
    th[t].pc = "create_ret" /\ ~th[t].err /\ db # NoNet /\ Bridge \notin ifaces

\* C8: Delete stops a running bridge, then unloads the profiles, then removes
\* the record; when Stop or the unload fails the error is returned and the
\* record stays; after a successful Delete neither bridge nor record exists.
C8_DeleteOrder ==
  \A t \in Workers :
    th[t].pc = "delete_ret" =>
      /\ th[t].ufail \in {"stop", "unload"} => th[t].err /\ db = th[t].before.db
      /\ th[t].err => th[t].ufail # ""
      /\ ~th[t].err =>
           /\ db = NoNet /\ Bridge \notin ifaces
           /\ th[t].calls = (IF th[t].wasRunning THEN <<"Stop">> ELSE <<>>)
                              \o <<"unload", "delete">>

C8_Witness ==
  \E t \in Workers :
    /\ th[t].pc = "delete_ret" /\ ~th[t].err /\ th[t].wasRunning
    /\ db = NoNet /\ Bridge \notin ifaces

\* C9: Update with an unchanged config touches nothing and persists nothing;
\* Update of a pending network only persists the new config, without running
\* setup or Stop.
C9_UpdateFrame ==
  \A t \in Workers :
    th[t].pc = "update_ret" =>
      /\ ~dbUpdateNeeded(th[t].oldNet, th[t].newNet) =>
           /\ ~th[t].err /\ th[t].calls = <<>>
           /\ SysState = th[t].before.sys /\ db = th[t].before.db
           /\ net = th[t].oldNet
      /\ (dbUpdateNeeded(th[t].oldNet, th[t].newNet) /\ status = "pending") =>
           /\ th[t].calls = <<>>
           /\ SysState = th[t].before.sys
           /\ ~th[t].err => db = th[t].newNet

C9_Witness ==
  \E t \in Workers :
    /\ th[t].pc = "update_ret" /\ status = "pending" /\ ~th[t].err
    /\ th[t].changed # {} /\ db = th[t].newNet

RouteFamily(r) == IF r \in {Route4, Boot4} THEN 4 ELSE 6

\* C10: in setup an address or a route is added only while the bridge exists
\* and after this invocation has flushed the family it belongs to.
C10_FlushBeforeAdd ==
  [][/\ \A a \in addrs' \ addrs :
          /\ Bridge \in ifaces
          /\ \E t \in Workers : th[t].pc \in {"s_ipv4", "s_ipv6", "s_fan"}
                                /\ a[1] \in th[t].flushed
     /\ \A r \in AllRoutes :
          routes'[r] > routes[r] =>
            /\ Bridge \in ifaces
            /\ \E t \in Workers : RouteFamily(r) \in th[t].flushed]_vars

C10_Witness ==
  \E t \in Workers :
    /\ th[t].pc = "s_flush6" /\ th[t].flushed = {4}
    /\ <<4, Addr4>> \in addrs /\ routes[Route4] = 1

-----------------------------------------------------------------------------
\* Properties of the zone-transfer handler.

\* The handler has taken its access decision for the request in hand.
AccessDecided == dns.zone # NoZone /\ dns.pc \in {"answer", "done"}

\* The peers a zone config defines, and what it says about one of them.
PeersOf(config) == {k[2] : k \in {k \in DOMAIN config : Len(k) >= 3 /\ k[1] = "peers"}}
Restriction(config, p, field) ==
  IF <<"peers", p, field>> \in DOMAIN config THEN config[<<"peers", p, field>>] ELSE ""

PeerAdmits(zone, p, ip, tsig, tsigStatus) ==
  /\ Restriction(zone.config, p, "address") \in {"", ip}
  /\ \/ Restriction(zone.config, p, "key") = ""
     \/ /\ tsig # NoTsig /\ tsigStatus
        /\ tsig.name = <<zone.name, "_", p, ".">>

\* C11: a request is allowed exactly when the zone config defines a peer whose
\* address restriction (if any) is the source IP and whose key restriction (if
\* any) is met by a verified TSIG named "<zoneName>_<peerName>."; a zone
\* without any peers.* key denies every request.
C11_AllowedIffPeer ==
  AccessDecided =>
    /\ dns.allowed <=>
         \E p \in PeersOf(dns.zone.config) :
           PeerAdmits(dns.zone, p, dns.ip, dns.r.tsig, dns.w.tsigStatus)
    /\ (\A k \in DOMAIN dns.zone.config : k[1] # "peers") => ~dns.allowed

C11_Witness ==
  /\ AccessDecided /\ dns.allowed
  /\ DOMAIN dns.zone.config = {<<"peers", "a", "address">>, <<"peers", "a", "key">>}
  /\ dns.zone.config[<<"peers", "a", "address">>] = "10.0.0.5"
  /\ dns.zone.config[<<"peers", "a", "key">>] = "secret"

\* What the handler writes when the retriever reports an error.
NameErrorReply(r) ==
  [id |-> r.id, response |-> TRUE, rcode |-> "NameError", authoritative |-> FALSE,
   question |-> <<r.question[1]>>, answer |-> <<>>, tsig |-> NoTsig]

\* The retriever was called and the transfer was refused.
Refused == dns.pc = "done" /\ dns.lookups > 0 /\ ~dns.allowed

\* C12: when the zone retriever fails or access is denied, the one response
\* is NameError with an empty answer section, and it is the same message,
\* a function of the request alone, in both cases.
C12_NameErrorOnly ==
  Refused => /\ dns.written = <<NameErrorReply(dns.r)>>
             /\ dns.lookupErr # "" \/ dns.zone # NoZone

C12_Witness ==
  /\ Refused /\ dns.zone # NoZone /\ dns.ip = "10.0.0.9"
  /\ DOMAIN dns.zone.config = {<<"peers", "a", "address">>}
  /\ dns.zone.config[<<"peers", "a", "address">>] = "10.0.0.5"
  /\ dns.zone.content # <<>>
  /\ dns.written = <<NameErrorReply(dns.r)>>

\* The zone has a peer with neither an address nor a key restriction.
OpenPeer(config) ==
  \E p \in PeersOf(config) :
    Restriction(config, p, "address") = "" /\ Restriction(config, p, "key") = ""

\* The request in hand got past the retriever, asks without a TSIG, and the
\* zone it names has an open peer.
OpenTransfer ==
  /\ dns.pc = "done" /\ dns.zone # NoZone
  /\ dns.r.tsig = NoTsig /\ OpenPeer(dns.zone.config)

\* q holds the entries of content, in order, up to the first one that is not
\* a record.
RecordsOf(q, content) ==
  /\ Len(q) <= Len(content)
  /\ \A i \in 1..Len(q) : q[i] = content[i] /\ q[i] # "junk"
  /\ Len(q) < Len(content) => content[Len(q) + 1] = "junk"

\* C13: a single-question AXFR request without TSIG, from any source address,
\* for a zone with an open peer gets one NoError response flagged
\* authoritative whose answer section holds the records of the zone content
\* in order (all of them when the whole content parses).
C13_OpenTransfer ==
  OpenTransfer =>
    /\ Len(dns.written) = 1
    /\ dns.written[1].rcode = "NoError"
    /\ dns.written[1].authoritative
    /\ dns.written[1].tsig = NoTsig
    /\ RecordsOf(dns.written[1].answer, dns.zone.content)

C13_Witness ==
  /\ OpenTransfer /\ dns.ip = "10.0.0.9"
  /\ DOMAIN dns.zone.config = {<<"peers", "b", "key", "old">>, <<"peers", "a", "address">>}
  /\ dns.zone.config[<<"peers", "a", "address">>] = "10.0.0.5"
  /\ dns.zone.content = <<"rr2", "rr1">>
  /\ dns.written[1].answer = <<"rr2", "rr1">>

\* The handler has returned from a request with more than one question.
MultiQuestion == dns.pc = "done" /\ Len(dns.r.question) > 1

\* C14 (as amended): a request that carries more than one question gets
\* exactly one response, with the ServerFailure code; it is not ignored.
C14_MultiQuestionServerFailure ==
  MultiQuestion => /\ Len(dns.written) = 1
                   /\ dns.written[1].rcode = "ServerFailure"
                   /\ dns.lookups = 0

C14_Witness ==
  /\ MultiQuestion /\ dns.ready
  /\ dns.r.question[1].qtype = "AXFR" /\ dns.r.question[2].qtype = "AXFR"
  /\ dns.written = <<SetRcode(dns.r, "ServerFailure")>>

\* C14 as stated: a request that carries more than one question gets a
\* format-error response code.
C14_AsClaimed ==
  MultiQuestion => /\ Len(dns.written) = 1
                   /\ dns.written[1].rcode = "FormatError"

Unparsable(remote) == remote = <<"10.0.0.5">>

\* The response code the fixed order of checks asks for.
ExpectedRcode ==
  IF ~dns.ready THEN "ServerFailure"
  ELSE IF Len(dns.r.question) # 1 THEN "ServerFailure"
  ELSE IF dns.r.question[1].qtype # "AXFR" THEN "NotImplemented"
  ELSE IF Unparsable(dns.w.remote) THEN "ServerFailure"
  ELSE IF dns.lookupErr # "" \/ ~dns.allowed THEN "NameError"
  ELSE "NoError"

\* A check that comes before the zone lookup rejects the request in hand.
RejectedEarly ==
  \/ ~dns.ready
  \/ Len(dns.r.question) # 1
  \/ dns.r.question[1].qtype # "AXFR"
  \/ Unparsable(dns.w.remote)

\* C15: the response carries the code of the first failing check in the order
\* not ready, question count, question type, source address, zone lookup and
\* access; NoError comes with the authoritative flag; the retriever is never
\* called for a request an earlier check rejects, at most once otherwise, and
\* exactly one response is written per request, on return.
C15_CheckOrder ==
  /\ dns.pc \notin {"idle", "done"} => dns.written = <<>>
  /\ dns.pc # "idle" =>
       /\ dns.lookups <= 1
       /\ RejectedEarly => dns.lookups = 0
  /\ dns.pc = "done" =>
       /\ Len(dns.written) = 1
       /\ dns.written[1].rcode = ExpectedRcode
       /\ dns.written[1].rcode = "NoError" => dns.written[1].authoritative
       /\ ~RejectedEarly => dns.lookups = 1

C15_Witness ==
  /\ dns.pc = "done" /\ dns.ready /\ Len(dns.r.question) = 1
  /\ dns.r.question[1].qtype = "AXFR" /\ Unparsable(dns.w.remote)
  /\ dns.r.tsig # NoTsig
  /\ dns.written[1].rcode = "ServerFailure" /\ dns.lookups = 0

\* C16: the response of a successful transfer carries a TSIG, with the
\* request's key name and algorithm and a fudge of 300 seconds, exactly when
\* the request carried a TSIG and the transport's check of it passed; a
\* response with an error code carries none.
C16_SignedIffVerified ==
  dns.pc = "done" =>
    \A i \in 1..Len(dns.written) :
      LET m == dns.written[i]
      IN IF m.rcode = "NoError"
           THEN IF dns.r.tsig # NoTsig /\ dns.w.tsigStatus
                  THEN m.tsig = [name |-> dns.r.tsig.name,
                                 algorithm |-> dns.r.tsig.algorithm, fudge |-> 300]
                ELSE m.tsig = NoTsig
         ELSE m.tsig = NoTsig

C16_Witness ==
  /\ dns.pc = "done" /\ dns.allowed
  /\ dns.r.tsig # NoTsig /\ dns.w.tsigStatus
  /\ dns.zone.config = (<<"peers", "a", "key">> :> "secret")
  /\ dns.written[1].rcode = "NoError" /\ dns.written[1].tsig # NoTsig

\* C17: whatever the order in which the zone config keys and the peers are
\* iterated, isAllowed builds the same peers and takes the same decision, the
\* one the handler took.
C17_OrderIndependent ==
  AccessDecided =>
    \A keyOrder \in Orders(DOMAIN dns.zone.config) :
      LET peers == buildPeers(dns.zone.config, keyOrder, EmptyPeers)
      IN /\ \A other \in Orders(DOMAIN dns.zone.config) :
              buildPeers(dns.zone.config, other, EmptyPeers) = peers
         /\ \A peerOrder \in Orders(DOMAIN peers) :
              isAllowed(dns.zone, dns.ip, dns.r.tsig, dns.w.tsigStatus,
                        keyOrder, peerOrder) = dns.allowed

C17_Witness ==
  /\ AccessDecided /\ dns.allowed
  /\ dns.ip = "10.0.0.5" /\ dns.r.tsig = NoTsig
  /\ dns.zone.config = (<<"peers", "a", "address">> :> "10.0.0.5")
                         @@ (<<"peers", "b", "key">> :> "secret")

-----------------------------------------------------------------------------
\* Properties of the forkdns servers file.

\* updateForkdnsServersFile of worker t is about to return.
Updated(t) == HB(t).pc = "unlock"

\* C18: the servers file always holds a complete list, the one it had before
\* or the one of the last rename, and so does what the helper read from it;
\* when updateForkdnsServersFile returns success the file holds the input
\* addresses in input order, one per line; when it returns an error, from the
\* creation of the temporary file, a write to it or the rename, the file is
\* what it was before the call.
C18_AtomicPublish ==
  /\ PermContent = fdns.current
  /\ fdns.seen \in fdns.published
  /\ \A t \in Workers :
       Updated(t) =>
         IF HB(t).err = ""
           THEN /\ PermContent = Lines(HB(t).addresses)
                /\ ParseServers(PermContent) = HB(t).addresses
         ELSE PermContent = HB(t).before

C18_Witness ==
  /\ Updated("w1") /\ HB("w1").err = ""
  /\ HB("w1").addresses = <<"10.0.0.3", "10.0.0.2">>
  /\ PermContent = <<"10.0.0.3", "\n", "10.0.0.2", "\n">>
  /\ fdns.seen = <<"10.0.0.2", "\n">>

\* The calls that have created the temporary file and not yet renamed it or
\* given up.
Publishing == {t \in Workers : HB(t).pc \in {"write", "rename"}}

BothPublished == \A t \in Workers : HB(t).pc = "hb_ret" /\ HB(t).renamed

\* C19: at most one call of updateForkdnsServersFile is between the creation
\* of the temporary file and its rename, and it is the one holding the lock;
\* the servers file is always a list some call was given, and when two
\* overlapping heartbeats have both published, it is the list of one of them.
C19_Serialized ==
  /\ Cardinality(Publishing) <= 1
  /\ \A t \in Publishing : fdns.lock = t
  /\ PermContent \in fdns.published
  /\ BothPublished => \E t \in Workers : PermContent = Lines(HB(t).addresses)

C19_Witness ==
  /\ BothPublished
  /\ HB("w1").addresses = <<"10.0.0.2", "10.0.0.3">>
  /\ HB("w2").addresses = <<"10.0.0.3">>
  /\ PermContent = <<"10.0.0.2", "\n", "10.0.0.3", "\n">>

\* The members HandleHeartbeat has to ask: online, and not this node.
Asked(members) ==
  {i \in DOMAIN members : members[i].online /\ members[i].address # LocalAddress}

GlobalInet(state) ==
  {i \in DOMAIN state : state[i].family = "inet" /\ state[i].scope = "global"}

\* The list that the answers of the members add up to: for each answer, in
\* order, its first global IPv4 address.
RECURSIVE FreshList(_)
FreshList(states) ==
  IF states = <<>> THEN <<>>
  ELSE LET state == Head(states)
           first == CHOOSE i \in GlobalInet(state) : \A k \in GlobalInet(state) : i <= k
       IN (IF GlobalInet(state) = {} THEN <<>> ELSE <<state[first].address>>)
            \o FreshList(Tail(states))

\* HandleHeartbeat of worker t has come to its return.
Returning(t) == t \in fdns.workers /\ HB(t).pc = "hb_ret"

\* C20: a heartbeat that cannot connect to an online member, or cannot get
\* its network state, returns that error without having touched any file,
\* and the servers file is what it was; a heartbeat returns success only
\* when every online member other than this node has answered, and then the
\* servers file holds the list made of their answers.
C20_AbortKeepsList ==
  \A t \in Workers :
    Returning(t) =>
      /\ HB(t).err \in {"connect", "state", "address"} =>
           ~HB(t).wrote /\ PermContent = HB(t).before
      /\ HB(t).err = "" =>
           /\ Len(HB(t).states) = Cardinality(Asked(HB(t).members))
           /\ HB(t).addresses = FreshList(HB(t).states)
           /\ PermContent = Lines(HB(t).addresses)

C20_Witness ==
  /\ Returning("w1") /\ fdns.lastErr \in {"connect", "state"}
  /\ HB("w1").err = "" /\ HB("w1").renamed
  /\ HB("w1").before = <<"10.0.0.2", "\n">>
  /\ PermContent = <<"10.0.0.3", "\n", "10.0.0.2", "\n">>

\* HandleHeartbeat of worker t returns success.
Refreshed(t) == Returning(t) /\ HB(t).err = ""

\* The answers, by their place among the members asked, that hold a global
\* IPv4 address.
WithGlobalInet(states) == {k \in DOMAIN states : GlobalInet(states[k]) # {}}

\* The k for which states[k] is the i-th answer with a global IPv4 address.
NthWith(states, i) ==
  CHOOSE k \in WithGlobalInet(states) :
    Cardinality({j \in WithGlobalInet(states) : j <= k}) = i

FirstGlobalInet(state) ==
  state[CHOOSE i \in GlobalInet(state) : \A k \in GlobalInet(state) : i <= k].address

\* C21 (as amended): after a successful HandleHeartbeat every online member
\* other than this node has been asked, and the servers file lists, in the
\* order of the heartbeat, the first global IPv4 address of each of them that
\* has one: at most one entry per such member, none for a member without a
\* global IPv4 address, for an offline member or for this node. Nobody holds
\* the servers file open for writing: a new list arrives as a new file.
C21_OneEntryPerAddressedMember ==
  /\ fdns.perm # 0 => \A t \in Workers : HB(t).file # fdns.perm
  /\ \A t \in Workers :
       Refreshed(t) =>
         LET list == ParseServers(PermContent)
             states == HB(t).states
         IN /\ Len(states) = Cardinality(Asked(HB(t).members))
            /\ Len(list) = Cardinality(WithGlobalInet(states))
            /\ \A i \in DOMAIN list :
                 list[i] = FirstGlobalInet(states[NthWith(states, i)])

C21_Witness ==
  /\ Refreshed("w1") /\ HB("w1").renamed
  /\ HB("w1").members[1].address = "n3" /\ ~HB("w1").members[3].online
  /\ ParseServers(PermContent) = <<"10.0.0.3">>

\* C21 as stated: after a successful HandleHeartbeat the servers file holds
\* exactly one entry for each online member other than this node.
C21_AsClaimed ==
  \A t \in Workers :
    Refreshed(t) =>
      Len(ParseServers(PermContent)) = Cardinality(Asked(HB(t).members))

-----------------------------------------------------------------------------
\* Forwards

ListenNet(f) == ParseIPToNet(f.listen).subnet
Overlap(a, b) == SubnetContains(a, b) \/ SubnetContains(b, a)

\* The subnets a forward of network n has to stay clear of: those of the
\* other networks and the routes of the NICs.
ForeignUsage(n) ==
  {u \in NetworkUsage : u.networkName # n \/ u.instanceDevice # ""}

\* C22: no two forwards of a bridge have the same listen address, and no
\* forward's listen address overlaps an external subnet of another network,
\* a route of a NIC, or the listen address of another forward.
C22_NoOverlap ==
  \A f \in fwd.forwards :
    /\ \A g \in fwd.forwards : g.id # f.id => ~Overlap(ListenNet(f), ListenNet(g))
    /\ \A u \in ForeignUsage(f.net) : ~Overlap(ListenNet(f), u.subnet)

-----------------------------------------------------------------------------
\* Environment errors of Start

\* The failures of setup that are errors of the environment: Open vSwitch
\* is not installed, the kernel has no IPv6, dnsmasq is not installed.
EnvironmentErrors == {"noOVS", "noIPv6", "noDnsmasq"}

StartFailedOnEnvironment(t) ==
  /\ th[t].op = "Start" /\ th[t].pc = "start_ret" /\ th[t].err
  /\ th[t].failedAt \in EnvironmentErrors

\* C24: when Start fails because of an environment error, the error is
\* raised before anything is mutated: the invocation has created no device
\* and has flushed no address.
C24_EnvErrorBeforeMutation ==
  \A t \in Workers :
    StartFailedOnEnvironment(t) => th[t].made = <<>> /\ th[t].flushed = {}

-----------------------------------------------------------------------------
\* Routed NICs

\* The Start is between the Lock and the end of the parent-creation step.
InParentStep(t) == NT(t).pc \in {"n_parent", "n_create", "n_sysctl"}

\* C23: at most one Start is in the parent-creation step at a time; the
\* creation of the VLAN parent never meets a device that exists, the parent
\* is created at most once, by the first Start that looks for it, and every
\* later Start finds it existing.
C23_ParentCreatedOnce ==
  /\ \A t1, t2 \in Workers : InParentStep(t1) /\ InParentStep(t2) => t1 = t2
  /\ \A t \in Workers : InParentStep(t) => nic.lock = t
  /\ nic.collisions = 0
  /\ nic.created <= 1
  /\ \A i \in DOMAIN nic.log : nic.log[i] = "created" => i = 1
  /\ \A t \in Workers :
       NT(t).statusDev \in {"existing", "reused"} =>
         GetHostDevice(NT(t).c.parent, NT(t).c.vlan) \in nic.ifaces

\* Two Starts shared a parent and VLAN: the first created the device, the
\* second, which waited for the lock meanwhile, found it.
C23_Witness ==
  /\ Len(nic.log) = 2 /\ nic.log[1] = "created" /\ nic.log[2] # "created"
  /\ nic.created = 1
  /\ \E t \in Workers : NT(t).pc = "n_host" /\ NT(t).statusDev # "created"

-----------------------------------------------------------------------------
\* Validate

Validated == calc.fn = "Validate" /\ calc.done
Accepted == Validated /\ calc.err = ""
Rejected == Validated /\ calc.err # ""
FanMode == <<<<"bridge", "mode">>, "fan">> \in calc.config

\* The keys that may be set in fan mode, with the values their rules take.
ExceptedInFan(e) ==
  \/ e[1] \in {<<"ipv4", "firewall">>, <<"ipv4", "nat">>} /\ e[2] \in {"", "true", "false"}
  \/ e[1] = <<"ipv4", "nat", "order">> /\ e[2] \in {"", "before", "after"}
  \/ e[1] = <<"ipv4", "dhcp", "expiry">>

ForbiddenInFan(e) ==
  /\ e[2] # ""
  /\ \/ e[1][1] = "ipv6" /\ Len(e[1]) >= 2
     \/ /\ e[1][1] = "ipv4" /\ Len(e[1]) >= 2
        /\ e[1] \notin {<<"ipv4", "dhcp", "expiry">>, <<"ipv4", "firewall">>,
                        <<"ipv4", "nat">>, <<"ipv4", "nat", "order">>}

\* C25: in fan mode Validate rejects every config with a non-empty ipv6.*
\* key or a non-empty ipv4.* key other than ipv4.dhcp.expiry, ipv4.firewall,
\* ipv4.nat and ipv4.nat.order, and it accepts a config of excepted keys with
\* valid values.
C25_FanRejectsIPKeys ==
  Validated /\ FanMode =>
    /\ (\E e \in calc.config : ForbiddenInFan(e)) => Rejected
    /\ (/\ Length(calc.name) <= 11
        /\ \A e \in calc.config : e[1] = <<"bridge", "mode">> \/ ExceptedInFan(e))
         => Accepted

\* A fan-mode config with an excepted key and ipv6.dhcp.expiry, whose own
\* rule takes any value, was rejected by the check of the mode.
C25_Witness ==
  /\ Validated /\ FanMode /\ calc.name = "br0"
  /\ calc.config = {<<<<"bridge", "mode">>, "fan">>, <<<<"ipv4", "nat">>, "true">>,
                    <<<<"ipv6", "dhcp", "expiry">>, "1h">>}
  /\ calc.err = "fanipv6"

\* A tunnel key of a name that fits, with one of the fields and a value of
\* the field's form.
WellFormedTunnelEntry(name, e) ==
  /\ Len(e[1]) = 3 /\ e[1][1] = "tunnel"
  /\ Length(name) + Length(e[1][2]) <= 14
  /\ \/ e[1][3] = "protocol" /\ e[2] \in {"gre", "vxlan"}
     \/ e[1][3] \in {"local", "remote", "group"} /\ e[2] = "10.0.0.1"
     \/ e[1][3] = "interface" /\ e[2] = "eth1"
     \/ e[1][3] = "port" /\ e[2] = "4789"
     \/ e[1][3] \in {"id", "ttl"} /\ e[2] = "1"

StandardMode == \E m \in {"", "standard"} : <<<<"bridge", "mode">>, m>> \in calc.config

\* A key that no static rule and no tunnel field covers.
UnknownKey(key) ==
  /\ ~HasStaticRule(key)
  /\ ~(/\ Len(key) = 3 /\ key[1] = "tunnel"
       /\ key[3] \in {"protocol", "local", "remote", "group", "interface", "port",
                      "id", "ttl"})

\* C26: a config whose entries are tunnel.<name>.<field> keys with a name
\* that fits, a field among protocol, local, remote, group, interface, port,
\* id and ttl, and a well-formed value is accepted; a config with a key that
\* matches no rule is rejected.
C26_TunnelKeys ==
  Validated =>
    /\ (/\ StandardMode
        /\ \A e \in calc.config :
             e[1] = <<"bridge", "mode">> \/ WellFormedTunnelEntry(calc.name, e))
         => Accepted
    /\ (\E e \in calc.config : UnknownKey(e[1])) => Rejected

-----------------------------------------------------------------------------
\* fanAddress

FanComputed == calc.fn = "fanAddress" /\ calc.done

\* The leading bits of two addresses agree.
SamePrefix(a, b, bits) ==
  /\ Hi(a) \div Pow2(16 - (IF bits < 16 THEN bits ELSE 16))
       = Hi(b) \div Pow2(16 - (IF bits < 16 THEN bits ELSE 16))
  /\ bits > 16 => Lo(a) \div Pow2(32 - bits) = Lo(b) \div Pow2(32 - bits)

\* The addresses of the host inside the underlay, lo left out.
LocalInUnderlay ==
  {i \in DOMAIN calc.ifaces :
     /\ calc.ifaces[i].name # "lo"
     /\ SamePrefix(calc.ifaces[i].addr, calc.underlay.ip, calc.underlay.size)}

FanSizesFit ==
  /\ calc.underlay.size \in {16, 24}
  /\ calc.overlay.size \in {8, 16}
  /\ calc.overlay.size + (32 - calc.underlay.size) + 8 <= 32

\* The overlay network bits, then the underlay host bits of the local
\* address, and 1 in the last byte: the upper and the lower half.
FanExpected(local) ==
  LET hostBits == 32 - calc.underlay.size
      overlayNet == (Hi(calc.overlay.ip) \div Pow2(16 - calc.overlay.size))
                      * Pow2(16 - calc.overlay.size)
      host == Lo(local) % Pow2(hostBits)
      low == host * Pow2(32 - calc.overlay.size - hostBits) + 1
  IN <<overlayNet + low \div 65536, low % 65536>>

\* C27: fanAddress fails unless the underlay is a /16 or /24, the overlay a
\* /8 or /16 and overlay bits + underlay host bits + 8 <= 32; otherwise, for
\* the local address in the underlay, it returns the overlay network bits
\* followed by the host bits of the local address, with last byte 1 and the
\* overlay's prefix length.
C27_FanAddress ==
  FanComputed =>
    /\ ~FanSizesFit => calc.out.err # ""
    /\ FanSizesFit /\ LocalInUnderlay = {} => calc.out.err # ""
    /\ FanSizesFit /\ LocalInUnderlay # {} =>
         LET first == CHOOSE i \in LocalInUnderlay : \A j \in LocalInUnderlay : i <= j
             local == calc.ifaces[first].addr
         IN /\ calc.out.err = ""
            /\ <<Hi(calc.out.ip), Lo(calc.out.ip)>> = FanExpected(local)
            /\ calc.out.size = calc.overlay.size
            /\ calc.out.ipStr = local /\ calc.out.dev = calc.ifaces[first].name

\* An /8 overlay over a /16 underlay, with lo first and the local address
\* on the second interface.
C27_Witness ==
  /\ FanComputed /\ calc.underlay.size = 16 /\ calc.overlay.size = 8
  /\ Len(calc.ifaces) = 2 /\ calc.ifaces[1].name = "lo"
  /\ calc.out.err = "" /\ calc.out.ip = <<240, 2, 7, 1>>

-----------------------------------------------------------------------------
\* The order of the address steps of setup

\* This step of setup t adds an address of the family to the bridge.
AddsAddress(t, fam, pc) ==
  /\ th[t].pc = pc
  /\ \E a \in addrs' \ addrs : a[1] = fam

\* C28: within one setup the flush of IPv4 is complete before the IPv4
\* address is added, the IPv4 address is added before IPv6 is flushed, and
\* the flush of IPv6 is complete before the IPv6 address is added.
C28_FlushAddPerFamily ==
  [][\A t \in Workers :
       /\ AddsAddress(t, 4, "s_ipv4") => th[t].flushed = {4}
       /\ AddsAddress(t, 6, "s_ipv6") => th[t].flushed = {4, 6}]_vars

\* Both families were flushed and configured by one setup.
C28_Witness ==
  \E t \in Workers :
    /\ th[t].pc = "s_fan" /\ th[t].flushed = {4, 6}
    /\ ~IsFan(cfg)
    /\ <<4, cfg["ipv4.address"]>> \in addrs /\ <<6, cfg["ipv6.address"]>> \in addrs

\* The claim as stated: both families are flushed when the IPv4 address is
\* added.
C28_AsClaimed ==
  [][\A t \in Workers :
       AddsAddress(t, 4, "s_ipv4") => th[t].flushed = {4, 6}]_vars

-----------------------------------------------------------------------------
\* Boot routes

\* C29: every boot route that was on the bridge when setup took its
\* snapshot of the family is on the bridge again when setup returns success.
C29_BootRoutesSurvive ==
  \A t \in Workers :
    th[t].op = "Start" /\ th[t].pc = "start_ret" /\ ~th[t].err =>
      \A b \in th[t].bootSeen : routes[b] > 0

-----------------------------------------------------------------------------
\* Update with a change of the driver

\* Update t changes bridge.driver of a created network whose bridge was
\* running when the request arrived.
DriverChange(t) ==
  /\ th[t].op = "Update" /\ th[t].armed
  /\ "bridge.driver" \in th[t].changed
  /\ Bridge \in th[t].before.sys[1]

\* The step removes the bridge on behalf of Update t.
UpdateRemovesBridge(t) ==
  /\ DriverChange(t) /\ th[t].pc = "p_bridge"
  /\ Bridge \in ifaces /\ Bridge \notin ifaces'

\* C30: when Update changes bridge.driver on a running bridge, Stop runs
\* first: the bridge is removed through the backend of the old driver, which
\* created it, while nothing has been persisted yet and before setup is
\* called; the new config is persisted with the bridge down, and
\* when Update succeeds setup has created the bridge with the new driver.
C30_DriverChangeStopsFirst ==
  [][\A t \in Workers :
       /\ UpdateRemovesBridge(t) =>
            /\ bridgeKind = driverOf(th[t].oldNet.config)
            /\ db = th[t].before.db /\ net = th[t].oldNet
            /\ th[t].calls = <<"Stop">>
       /\ (DriverChange(t) /\ th[t].pc = "u_persist") =>
            /\ th[t].calls = <<"Stop">> /\ Bridge \notin ifaces
            /\ db = th[t].before.db /\ net = th[t].oldNet
       /\ (DriverChange(t) /\ th[t].pc = "update_ret" /\ ~th[t].err) =>
            /\ th[t].calls = <<"Stop", "setup">>
            /\ db = th[t].newNet
            /\ Bridge \in ifaces /\ bridgeKind = driverOf(th[t].newNet.config)]_vars

\* An Update from the native driver to Open vSwitch succeeded on a bridge
\* that was running.
C30_Witness ==
  \E t \in Workers :
    /\ DriverChange(t) /\ th[t].pc = "update_ret" /\ ~th[t].err
    /\ th[t].before.sys[2] = "native" /\ bridgeKind = "openvswitch"
    /\ th[t].calls = <<"Stop", "setup">>

-----------------------------------------------------------------------------
\* Update and the firewall state of a disabled family

\* Update t changed at least one key of a created network and has returned
\* success.
UpdateSucceeded(t) ==
  /\ th[t].op = "Update" /\ th[t].armed /\ th[t].changed # {}
  /\ th[t].pc = "update_ret" /\ ~th[t].err

AddressOf(c, fam) == IF fam = 4 THEN c["ipv4.address"] ELSE c["ipv6.address"]

\* The new config switches family fam off: the old config had an address of
\* that family (or, for IPv4, was in fan mode) and gave the bridge firewall
\* rules of it, the new one sets the address to none.
DisablesFamily(t, fam) ==
  /\ fam \in fwOptsFamilies(th[t].oldNet.config)
  /\ AddressOf(th[t].newNet.config, fam) = "none"
  /\ ~(fam = 4 /\ IsFan(th[t].newNet.config))

\* The step is the firewall clearing of the setup that Update t runs.
UpdateClearsFirewall(t) ==
  /\ th[t].op = "Update" /\ th[t].armed /\ th[t].pc = "s_fwclear"
  /\ th[t].stack = <<"u_setup_ret">>
  /\ th'[t].pc = SetupNext("s_fwclear")

\* C31: when Update changes a key, setup is run again with the old config as
\* its argument; its firewall clearing covers every family that the old or
\* the new config uses, and after a successful Update that disables a family
\* no firewall rule of that family is left for the bridge.
C31_DisabledFamilyCleared ==
  [][\A t \in Workers :
       /\ UpdateClearsFirewall(t) =>
            /\ th[t].oldConfig = th[t].oldNet.config
            /\ cfg = th[t].newNet.config
            /\ fwRules' \subseteq fwRules
            /\ fwRules' \cap (fwOptsFamilies(th[t].oldNet.config)
                             \cup fwOptsFamilies(th[t].newNet.config)) = {}
       /\ UpdateSucceeded(t)' =>
            /\ "setup" \in {th'[t].calls[i] : i \in DOMAIN th'[t].calls}
            /\ th'[t].oldConfig = th'[t].oldNet.config
            /\ \A fam \in {4, 6} : DisablesFamily(t, fam)' => fam \notin fwRules']_vars

\* A successful Update switched IPv6 off on a bridge that had IPv6 rules.
C31_Witness ==
  \E t \in Workers :
    /\ UpdateSucceeded(t) /\ DisablesFamily(t, 6)
    /\ 6 \in th[t].before.sys[6]
    /\ 6 \notin fwRules

-----------------------------------------------------------------------------
\* dnsmasq exits within the health-check window

\* The step is a launch of dnsmasq by t in which the process exits before the
\* deadline of the wait.
EarlyExitStep(t) ==
  /\ th[t].pc = "s_dnsmasq" /\ UsesDNSMasq(cfg)
  /\ th'[t].pc # "s_dnsmasq" /\ th'[t].early

\* t is in the steps of setup that follow an early exit of dnsmasq.
AfterEarlyExit(t) ==
  th[t].early /\ th[t].pc \in {"s_forkdns", "s_firewall", "s_finish"}

\* C32: when dnsmasq exits within the health-check window setup does not
\* abort: the PID file is saved and setup goes on to the forwarder, firewall,
\* forwards and BGP steps, and returns success with the firewall applied
\* unless one of those later steps fails; and the launch step itself always
\* completes, whether or not the process exits.
C32_EarlyExitNoAbort ==
  /\ [][\A t \in Workers :
          EarlyExitStep(t) =>
            /\ th'[t].pc = "s_forkdns" /\ th'[t].failedAt = ""
            /\ dnsmasq'.pidfile /\ dnsmasq'.running = dnsmasq.running]_vars
  /\ \A t \in Workers :
       (th[t].pc = "s_dnsmasq") ~> (th[t].pc # "s_dnsmasq")
  /\ \A t \in Workers :
       AfterEarlyExit(t) ~>
         \/ /\ th[t].pc = "start_ret" /\ ~th[t].err /\ th[t].early
            /\ dnsmasq.pidfile /\ fwOptsFamilies(cfg) \subseteq fwRules
         \/ th[t].failedAt \in {"s_forkdns", "s_firewall", "s_finish"}

\* A Start returns success although dnsmasq exited within the window.
C32_Witness ==
  \E t \in Workers :
    /\ th[t].op = "Start" /\ th[t].pc = "start_ret" /\ ~th[t].err /\ th[t].early
    /\ dnsmasq.pidfile /\ dnsmasq.running = 0
    /\ fwOptsFamilies(cfg) \subseteq fwRules /\ fwRules # {}

-----------------------------------------------------------------------------
\* The DNS forwarder and cluster membership

\* The step is the forwarder step of a setup by t that has launched dnsmasq.
ForwarderStep(t) ==
  /\ th[t].pc = "s_forkdns" /\ th'[t].pc # "s_forkdns"
  /\ UsesDNSMasq(cfg)

\* In the step the forwarder is spawned, or the spawn is tried and fails.
SpawnTried(t) == forkdns' # forkdns \/ th'[t].failedAt = "s_forkdns"

\* C33 as stated: in a setup that launches dnsmasq the forwarder is spawned
\* if and only if the node is a cluster member, whatever the bridge mode.
C33_AsClaimed ==
  [][\A t \in Workers : ForwarderStep(t) => (SpawnTried(t) <=> env.clustered)]_vars

\* C33: in a setup that launches dnsmasq the forwarder is spawned if and only
\* if the bridge is in fan mode and the node is a cluster member; outside fan
\* mode, and on a node that is not a cluster member, no forwarder is spawned
\* and the forwarder's state is left as it is.
C33_ForkdnsIffFanClustered ==
  [][\A t \in Workers :
       ForwarderStep(t) =>
         /\ SpawnTried(t) <=> (env.clustered /\ IsFan(cfg))
         /\ ~(env.clustered /\ IsFan(cfg)) =>
              forkdns' = forkdns /\ th'[t].pc = "s_firewall"]_vars

\* A forwarder has just been spawned for a fan bridge on a cluster member.
C33_Witness ==
  \E t \in Workers :
    /\ th[t].pc = "s_firewall" /\ th[t].dnsClustered
    /\ env.clustered /\ IsFan(cfg)
    /\ forkdns.tracked /\ forkdns.pidfile /\ forkdns.running > 0

-----------------------------------------------------------------------------
\* External interfaces with a global unicast address

ExternalDone == calc.fn = "attachExternal" /\ calc.done
CarriesGlobal(name) == \E a \in IfaceAddrs(calc.host[name]) : IsGlobalUnicast(a)
AttachedSet == {calc.out.attached[i] : i \in DOMAIN calc.out.attached}
ListedNames == {TrimSpace(calc.entries[i]) : i \in DOMAIN calc.entries}

\* C34: setup never attaches an external interface that carries a global
\* unicast address: when a listed interface has one, setup returns an error
\* and does not attach it; interfaces listed before it may be attached
\* already, and a missing interface is only skipped.
C34_NoConfiguredExternal ==
  ExternalDone =>
    /\ \A name \in AttachedSet : ~CarriesGlobal(name)
    /\ \A name \in calc.out.skipped : calc.host[name] = "missing"
    /\ (calc.out.err = "" /\ \A n \in ListedNames : calc.host[n] # "missing")
         => \A n \in ListedNames : ~CarriesGlobal(n)

-----------------------------------------------------------------------------
\* One helper process of each kind per bridge

\* The step starts a process of the helper whose state is h before and h2
\* after the step.
Spawns(h, h2) == h2.running > h.running

-----------------------------------------------------------------------------
\* Stop called again after a Stop that failed part-way

TunnelDevices == {d \in ifaces : HasBridgePrefix(d)}

\* Stop was called again after a Stop that had deleted the bridge and then
\* failed, and has returned success.
RetriedStopSucceeded(t) ==
  /\ th[t].op = "Stop" /\ th[t].retry
  /\ th[t].pc = "stop_ret" /\ ~th[t].err

\* C36: when a Stop fails after it deleted the bridge interface (before the
\* firewall was cleared, the helpers were killed or the tunnel devices were
\* removed) and Stop is called again and returns success, the firewall state
\* is cleared, no dnsmasq or forkdns helper of the bridge is running and no
\* tunnel device with the bridge's name prefix remains.
C36_TeardownCompletes ==
  \A t \in Workers :
    RetriedStopSucceeded(t) =>
      /\ fwRules = {}
      /\ dnsmasq.running = 0 /\ forkdns.running = 0
      /\ TunnelDevices = {}

-----------------------------------------------------------------------------
\* A failing setup and a bridge that was there before

InSetup(t) ==
  th[t].pc \in {"s_dir", "s_bridge", "s_clean", "s_mtu", "s_link", "s_ext",
                "s_fwclear", "s_flush4", "s_ipv4", "s_flush6", "s_ipv6", "s_fan",
                "s_tunnels", "s_apparmor", "s_kill", "s_dnsmasq", "s_forkdns",
                "s_firewall", "s_finish", "s_revert"}
SetupReturned(t) == th[t].pc \in {"start_ret", "u_setup_ret", "u_rolled"}
Undone(t) == {th[t].undone[i] : i \in DOMAIN th[t].undone}

\* C37: a bridge interface that existed when setup began is never deleted by
\* that setup, in particular not by its revert stack when it fails: the
\* bridge is deleted on failure only when this invocation created it, and a
\* failed re-setup of a running bridge leaves the kernel bridge in place.
C37_ExistingBridgeKept ==
  \A t \in Workers :
    /\ (th[t].hadBridge /\ (InSetup(t) \/ SetupReturned(t))) =>
         /\ Bridge \in ifaces
         /\ Bridge \notin Undone(t)
         /\ bridgeKind # "none"
    /\ (InSetup(t) /\ Bridge \in Undone(t)) => ~th[t].hadBridge

\* The setup that Update runs on a running bridge has failed and undone what
\* it had created, and the bridge is there.
C37_Witness ==
  \E t \in Workers :
    /\ th[t].op = "Update" /\ th[t].pc = "u_setup_ret" /\ th[t].err
    /\ th[t].hadBridge /\ th[t].undone # <<>>
    /\ Bridge \in ifaces

-----------------------------------------------------------------------------
\* Forward mutations, the firewall and BGP

\* Request t changed the database and is about to return.
Mutated(t) == FT(t).pc = "f_ret" /\ FT(t).did # <<>>
FailedApply(t) == Mutated(t) /\ FT(t).err = "apply"

\* The database holds for the bridge what it held before the call, and the
\* firewall rules are those of these records.
RestoredState(t) ==
  /\ Content(FT(t).n, fwd.forwards) = FT(t).before
  /\ fwd.fw[FT(t).n] = Rules(FT(t).n, fwd.forwards)

\* C38 as stated: when the firewall regeneration or the BGP refresh fails,
\* the database is back at its content before the call and the firewall
\* rules are regenerated from the restored records.
C38_AsClaimed == \A t \in Workers : FailedApply(t) => RestoredState(t)

\* C38: every forward mutation that changes the database is followed by the
\* regeneration of the bridge's firewall forward rules and then by the BGP
\* prefix refresh; when either fails the revert hook runs, which writes the
\* database back (created record deleted, updated record reset, deleted
\* record created again), regenerates the firewall rules and refreshes the
\* prefixes without looking at the result of any of them: the database and
\* the firewall are back at the content before the call when the write and
\* the regeneration of the hook succeed.
C38_ApplyOrRevert ==
  \A t \in Workers :
    /\ (Mutated(t) /\ FT(t).err = "") =>
         /\ FT(t).did = <<"firewall", "bgp">> /\ ~FT(t).rb.ran
         /\ Content(FT(t).n, fwd.forwards) # FT(t).before
         /\ fwd.fw[FT(t).n] = Rules(FT(t).n, fwd.forwards)
         /\ fwd.bgp[FT(t).n] = Prefixes(FT(t).n, fwd.forwards)
    /\ Mutated(t) => FT(t).err \in {"", "apply"}
    /\ FailedApply(t) =>
         /\ FT(t).did \in {<<"firewall", "revert">>, <<"firewall", "bgp", "revert">>}
         /\ FT(t).rb.ran
         /\ FT(t).rb.db => Content(FT(t).n, fwd.forwards) = FT(t).before
         /\ (FT(t).rb.db /\ FT(t).rb.fw) => RestoredState(t)
         /\ FT(t).rb.bgp => fwd.bgp[FT(t).n] = Prefixes(FT(t).n, fwd.forwards)

\* A ForwardDelete failed at the BGP refresh and its hook has created the
\* record again and regenerated the rules.
C38_Witness ==
  \E t \in Workers :
    /\ FailedApply(t) /\ FT(t).op = "delete"
    /\ FT(t).did = <<"firewall", "bgp", "revert">>
    /\ FT(t).rb.db /\ FT(t).rb.fw /\ RestoredState(t)
    /\ FT(t).before # {}

-----------------------------------------------------------------------------
\* Routed NIC devices: the host side of nicRouted.Start, from revert.New on.

MaxRoutedStarts == 2   \* Starts of the routed NIC of one instance in one run

RoutedConfigs ==
  [inst : {"container", "vm"}, parent : {"", "eth0"}, host_name : {"", "veth0"},
   ipv4 : {<<>>, <<"10.0.0.2">>, <<"10.0.0.2", "10.0.0.3">>},
   ipv6 : {<<>>, <<"fd00::2">>}]

\* network.RandomDevName(prefix): one of the names it can draw.
RandomDevName(prefix) == IF prefix = "veth" THEN {"veth1", "veth2"} ELSE {"tap1", "tap2"}

NoVolatile == [host_name |-> "", created |-> ""]

RoutedIdle ==
  [pc |-> "idle", c |-> [none |-> TRUE], saveData |-> NoVolatile, todo |-> <<>>,
   stack |-> <<>>, order |-> <<>>, ran |-> <<>>, err |-> "", before |-> NoVolatile]

RoutedEnv ==
  [kind |-> "routed", ifaces |-> {}, neigh |-> {}, volatile |-> NoVolatile,
   up |-> FALSE, starts |-> 0, call |-> RoutedIdle]

RC == devs.call

\* The addresses of the configuration in the order of the loops: the IPv4
\* ones, then the IPv6 ones.
RoutedAddresses(c) == c.ipv4 \o c.ipv6

\* Start, up to revert.New: saveData holds last_state.created when there is
\* a parent, and the configured host_name.
RoutedStartBegin ==
  /\ devs.kind = "routed" /\ RC.pc = "idle"
  /\ ~devs.up /\ devs.starts < MaxRoutedStarts
  /\ \E c \in RoutedConfigs : \E statusDev \in {"existing", "created"} :
       devs' = [devs EXCEPT !.starts = @ + 1,
                  !.call = [RoutedIdle EXCEPT !.pc = "r_create", !.c = c,
                              !.saveData = [host_name |-> c.host_name,
                                            created |-> IF c.parent = "" THEN ""
                                                        ELSE IF statusDev # "existing" THEN "true"
                                                        ELSE "false"],
                              !.before = devs.volatile]]
  /\ UNCHANGED notDev

\* networkCreateVethPair or networkCreateTap, and the first revert.Add: the
\* creation fails when an interface of the name exists.
RoutedCreateHost ==
  /\ devs.kind = "routed" /\ RC.pc = "r_create"
  /\ \E name \in (IF RC.saveData.host_name # "" THEN {RC.saveData.host_name}
                  ELSE RandomDevName(IF RC.c.inst = "container" THEN "veth" ELSE "tap")) :
     \E ok \in BOOLEAN :
       devs' = IF ok /\ name \notin devs.ifaces
                 THEN [devs EXCEPT !.ifaces = @ \cup {name},
                         !.call.saveData.host_name = name,
                         !.call.stack = Append(@, [kind |-> "iface", what |-> name]),
                         !.call.order = Append(@, [kind |-> "iface", what |-> name]),
                         !.call.pc = "r_host"]
                 ELSE [devs EXCEPT !.call.saveData.host_name = name,
                         !.call.err = "create", !.call.pc = "r_revert"]
  /\ UNCHANGED notDev

\* networkSetupHostVethLimits, the accept_ra and rp_filter sysctls and
\* InstanceSetupRPFilter.
RoutedHostSetup ==
  /\ devs.kind = "routed" /\ RC.pc = "r_host"
  /\ \E err \in {"", "limits", "sysctl", "rpfilter"} :
       devs' = IF err = ""
                 THEN [devs EXCEPT !.call.pc = "r_addr", !.call.todo = RoutedAddresses(RC.c)]
                 ELSE [devs EXCEPT !.call.err = err, !.call.pc = "r_revert"]
  /\ UNCHANGED notDev

\* Variant: the neighbour proxy entry is added without a revert.Add.
RoutedAddressUnhooked ==
  /\ devs.kind = "routed" /\ RC.pc = "r_addr"
  /\ IF RC.todo = <<>>
       THEN \E err \in {"", "routes"} :
              devs' = IF err = "" THEN [devs EXCEPT !.call.pc = "r_volatile"]
                      ELSE [devs EXCEPT !.call.err = err, !.call.pc = "r_revert"]
       ELSE LET addrStr == Head(RC.todo)
                np == [kind |-> "neigh", what |-> <<RC.c.parent, addrStr>>]
            IN \E err \in {"", "route"} \cup (IF RC.c.parent # "" THEN {"neigh"} ELSE {}) :
                 devs' = IF err # ""
                           THEN [devs EXCEPT !.call.err = err, !.call.pc = "r_revert"]
                         ELSE IF RC.c.parent = ""
                           THEN [devs EXCEPT !.call.todo = Tail(@)]
                         ELSE [devs EXCEPT !.neigh = @ \cup {np.what},
                                 !.call.order = Append(@, np),
                                 !.call.todo = Tail(@)]
  /\ UNCHANGED notDev

\* One turn of the address loops: the host gateway address and the
\* forwarding sysctl of the family, the routes of the address, the neighbour
\* proxy entry on the parent and its revert.Add; with no address left, the
\* routes of the configuration.
RoutedAddress ==
  /\ devs.kind = "routed" /\ RC.pc = "r_addr"
  /\ IF RC.todo = <<>>
       THEN \E err \in {"", "routes"} :
              devs' = IF err = "" THEN [devs EXCEPT !.call.pc = "r_volatile"]
                      ELSE [devs EXCEPT !.call.err = err, !.call.pc = "r_revert"]
       ELSE LET addrStr == Head(RC.todo)
                np == [kind |-> "neigh", what |-> <<RC.c.parent, addrStr>>]
            IN \E err \in {"", "route"} \cup (IF RC.c.parent # "" THEN {"neigh"} ELSE {}) :
                 devs' = IF err # ""
                           THEN [devs EXCEPT !.call.err = err, !.call.pc = "r_revert"]
                         ELSE IF RC.c.parent = ""
                           THEN [devs EXCEPT !.call.todo = Tail(@)]
                         ELSE [devs EXCEPT !.neigh = @ \cup {np.what},
                                 !.call.stack = Append(@, np),
                                 !.call.order = Append(@, np),
                                 !.call.todo = Tail(@)]
  /\ UNCHANGED notDev

\* d.volatileSet(saveData) and, when it succeeds, revert.Success.
RoutedVolatileSet ==
  /\ devs.kind = "routed" /\ RC.pc = "r_volatile"
  /\ \E ok \in BOOLEAN :
       devs' = IF ok
                 THEN [devs EXCEPT !.volatile = RC.saveData, !.up = TRUE,
                         !.call.stack = <<>>, !.call.pc = "r_ret"]
                 ELSE [devs EXCEPT !.call.err = "volatile", !.call.pc = "r_revert"]
  /\ UNCHANGED notDev

\* revert.Fail: the hooks run last first; what InterfaceRemove and
\* np.Delete return is dropped.
RoutedRevert ==
  /\ devs.kind = "routed" /\ RC.pc = "r_revert"
  /\ IF RC.stack = <<>>
       THEN devs' = [devs EXCEPT !.call.pc = "r_ret"]
       ELSE LET h == Last(RC.stack)
            IN \E ok \in BOOLEAN :
                 devs' = [devs EXCEPT
                            !.ifaces = IF ok /\ h.kind = "iface" THEN @ \ {h.what} ELSE @,
                            !.neigh = IF ok /\ h.kind = "neigh" THEN @ \ {h.what} ELSE @,
                            !.call.stack = SubSeq(@, 1, Len(@) - 1),
                            !.call.ran = Append(@, [hook |-> h, ok |-> ok])]
  /\ UNCHANGED notDev

\* Start returns.
RoutedReturn ==
  /\ devs.kind = "routed" /\ RC.pc = "r_ret"
  /\ devs' = [devs EXCEPT !.call = RoutedIdle]
  /\ UNCHANGED notDev

\* Starts of the routed NIC of one instance, one after the other, until one
\* succeeds.
InitRouted ==
  /\ InitBridgeIdle /\ dns = DNSIdle(FALSE) /\ fdns = FdnsInit
  /\ fwd = FwdInit /\ nic = NicIdle /\ calc = CalcIdle
  /\ devs = RoutedEnv

NextRouted ==
  \/ RoutedStartBegin \/ RoutedCreateHost \/ RoutedHostSetup \/ RoutedAddress
  \/ RoutedVolatileSet \/ RoutedRevert \/ RoutedReturn

SpecRouted == InitRouted /\ [][NextRouted]_vars

\* Start is about to return an error after it created the host interface.
RoutedFailed == RC.pc = "r_ret" /\ RC.err # "" /\ RC.order # <<>>
RoutedSucceeded == RC.pc = "r_ret" /\ RC.err = ""

\* The neighbour proxy entries this Start added.
RoutedAdded == {RC.order[i].what : i \in {j \in 1..Len(RC.order) : RC.order[j].kind = "neigh"}}
HookFailed(h) == \E i \in 1..Len(RC.ran) : RC.ran[i] = [hook |-> h, ok |-> FALSE]
HooksRun == [i \in 1..Len(RC.ran) |-> RC.ran[i].hook]

\* C39 as stated: after a failed Start that created the host interface, the
\* interface and every neighbour proxy entry of this Start are gone.
C39_AsClaimed ==
  (devs.kind = "routed" /\ RoutedFailed) =>
    /\ RC.saveData.host_name \notin devs.ifaces
    /\ RoutedAdded \cap devs.neigh = {}

\* C39: when a routed-NIC Start fails after it created the host interface,
\* the removal of every neighbour proxy entry it added and then of the
\* interface is attempted, last created first, and what the removals return
\* is dropped: whatever is left is something whose removal failed; the
\* volatile keys host_name and last_state.created are as before the call; a
\* Start that succeeds runs no removal and leaves the interface, the
\* entries and the two volatile keys in place.
C39_RevertOnFailure ==
  devs.kind = "routed" =>
    /\ RoutedFailed =>
         /\ HooksRun = Reverse(RC.order)
         /\ RC.saveData.host_name \in devs.ifaces =>
              HookFailed([kind |-> "iface", what |-> RC.saveData.host_name])
         /\ \A e \in RoutedAdded \cap devs.neigh : HookFailed([kind |-> "neigh", what |-> e])
         /\ devs.volatile = RC.before
    /\ (RC.pc = "r_ret" /\ RC.err # "") => devs.volatile = RC.before /\ ~devs.up
    /\ RoutedSucceeded =>
         /\ RC.ran = <<>>
         /\ RC.saveData.host_name \in devs.ifaces
         /\ RoutedAdded \subseteq devs.neigh
         /\ devs.volatile = RC.saveData
         /\ RC.c.parent # "" => Len(RC.order) = 1 + Len(RoutedAddresses(RC.c))

\* A Start with a parent failed after two neighbour proxy entries, and the
\* three removals succeeded.
C39_Witness ==
  /\ devs.kind = "routed" /\ RoutedFailed
  /\ Len(RC.ran) = 3 /\ \A i \in 1..3 : RC.ran[i].ok
  /\ RC.ran[3].hook.kind = "iface"
  /\ RC.saveData.host_name \notin devs.ifaces /\ devs.neigh = {}

-----------------------------------------------------------------------------
\* Infiniband SR-IOV devices: infinibandSRIOV.Start and postStop.

MaxIBOps == 4     \* Starts and Stops of infiniband devices in one run

IBParent == "ib0"
IBFunctions == {"ib0v0", "ib0v1"}
IBDeviceNames == {"d1", "d2", "d3"}

IBThreadIdle ==
  [pc |-> "idle", device |-> "", ibDevs |-> {}, reserved |-> {}, host_name |-> "",
   err |-> ""]

\* The host: the parent may be missing; vfs are the virtual functions of
\* the parent; volatile holds the host_name key of every device.
IBEnv(parent, vfs, workers) ==
  [kind |-> "infiniband", parent |-> parent, vfs |-> vfs,
   volatile |-> [d \in IBDeviceNames |-> ""], ops |-> 0, workers |-> workers,
   th |-> [t \in Workers |-> IBThreadIdle]]

IT(t) == devs.th[t]

IBFail(t, err) == [devs EXCEPT !.th[t].err = err, !.th[t].pc = "i_ret"]

\* infinibandDevices(nics, parent): the parent and its virtual functions.
infinibandDevices(parent) == IF parent THEN {IBParent} \cup devs.vfs ELSE {}

\* network.SRIOVGetHostDevicesInUse: the host devices the volatile keys of
\* the devices of all instances name.
SRIOVGetHostDevicesInUse == {devs.volatile[d] : d \in IBDeviceNames} \ {""}

\* Start of a device that is not started: validateEnvironment,
\* resources.GetNetwork and the filter on the parent, less the parent.
IBStartBegin(t) ==
  /\ devs.kind = "infiniband" /\ IT(t).pc = "idle" /\ t \in devs.workers
  /\ devs.ops < MaxIBOps
  /\ \E d \in IBDeviceNames :
       /\ devs.volatile[d] = "" /\ \A u \in Workers : IT(u).device # d
       /\ devs' = IF ~devs.parent
                    THEN [devs EXCEPT !.ops = @ + 1,
                            !.th[t] = [IBThreadIdle EXCEPT !.device = d, !.err = "parent",
                                                           !.pc = "i_ret"]]
                    ELSE [devs EXCEPT !.ops = @ + 1,
                            !.th[t] = [IBThreadIdle EXCEPT !.device = d, !.pc = "i_reserved",
                                         !.ibDevs = infinibandDevices(devs.parent) \ {IBParent}]]
  /\ UNCHANGED notDev

\* SRIOVGetHostDevicesInUse, the removal of the reserved devices and the
\* choice of a free one: the first of an iteration over a map.
IBChoose(t) ==
  /\ devs.kind = "infiniband" /\ IT(t).pc = "i_reserved"
  /\ \E ok \in BOOLEAN :
       LET reservedDevices == SRIOVGetHostDevicesInUse
           ibDevs == IT(t).ibDevs \ reservedDevices
       IN IF ~ok THEN devs' = IBFail(t, "reserved")
          ELSE IF ibDevs = {} THEN devs' = IBFail(t, "in use")
          ELSE \E vfDev \in ibDevs :
                 devs' = [devs EXCEPT !.th[t].ibDevs = ibDevs,
                            !.th[t].reserved = reservedDevices,
                            !.th[t].host_name = vfDev, !.th[t].pc = "i_setup"]
  /\ UNCHANGED notDev

\* networkSnapshotPhysicalNIC, the MAC address, the MTU and
\* infinibandAddDevices.
IBSetup(t) ==
  /\ devs.kind = "infiniband" /\ IT(t).pc = "i_setup"
  /\ \E err \in {"", "setup"} :
       devs' = IF err = "" THEN [devs EXCEPT !.th[t].pc = "i_volatile"]
               ELSE IBFail(t, err)
  /\ UNCHANGED notDev

\* d.volatileSet(saveData)
IBVolatileSet(t) ==
  /\ devs.kind = "infiniband" /\ IT(t).pc = "i_volatile"
  /\ \E ok \in BOOLEAN :
       devs' = IF ok THEN [devs EXCEPT !.volatile[IT(t).device] = IT(t).host_name,
                                      !.th[t].pc = "i_ret"]
               ELSE IBFail(t, "volatile")
  /\ UNCHANGED notDev

\* Start returns.
IBReturn(t) ==
  /\ devs.kind = "infiniband" /\ IT(t).pc = "i_ret"
  /\ devs' = [devs EXCEPT !.th[t] = IBThreadIdle]
  /\ UNCHANGED notDev

\* postStop of a started device: the deferred volatileSet clears host_name.
IBPostStop(t) ==
  /\ devs.kind = "infiniband" /\ IT(t).pc = "idle" /\ t \in devs.workers
  /\ devs.ops < MaxIBOps
  /\ \E d \in IBDeviceNames :
       /\ devs.volatile[d] # ""
       /\ devs' = [devs EXCEPT !.ops = @ + 1, !.volatile[d] = ""]
  /\ UNCHANGED notDev

\* Starts and Stops of infiniband devices by two workers, on every host.
InitInfiniband ==
  /\ InitBridgeIdle /\ dns = DNSIdle(FALSE) /\ fdns = FdnsInit
  /\ fwd = FwdInit /\ nic = NicIdle /\ calc = CalcIdle
  /\ \E parent \in BOOLEAN : \E vfs \in SUBSET IBFunctions :
       /\ ~parent => vfs = {}
       /\ devs = IBEnv(parent, vfs, Workers)

NextInfiniband ==
  \E t \in Workers :
    \/ IBStartBegin(t) \/ IBChoose(t) \/ IBSetup(t) \/ IBVolatileSet(t)
    \/ IBReturn(t) \/ IBPostStop(t)

SpecInfiniband == InitInfiniband /\ [][NextInfiniband]_vars

\* Start of worker t is about to return success.
IBStarted(t) == IT(t).pc = "i_ret" /\ IT(t).err = ""

\* C40: two infiniband SR-IOV devices started concurrently on the same
\* parent are never assigned the same virtual function: the virtual
\* function of a Start that returns success is not the parent and is not
\* the one recorded for another device, and no two started devices record
\* the same one.
C40_DistinctFunctions ==
  devs.kind = "infiniband" =>
    /\ \A t \in Workers :
         IBStarted(t) =>
           /\ IT(t).host_name \in devs.vfs
           /\ \A d \in IBDeviceNames \ {IT(t).device} : devs.volatile[d] # IT(t).host_name
    /\ \A d1, d2 \in IBDeviceNames :
         (d1 # d2 /\ devs.volatile[d1] # "") => devs.volatile[d1] # devs.volatile[d2]

====
